---- MODULE Spec2Model ----
(***************************************************************************)
(* VAAS classification engine (vaas/core/classifier.py) together with the  *)
(* rule store it loads from (vaas/core/knowledge.py).                      *)
(*                                                                         *)
(* Strings are TLA+ strings; characters are one-character strings taken    *)
(* with SubSeq.  The only whitespace character of the model is the space.  *)
(***************************************************************************)
EXTENDS Integers, Sequences, FiniteSets, TLC

(***************************************************************************)
(* Python str primitives                                                   *)
(***************************************************************************)
UpperChars == "ABCDEFGHIJKLMNOPQRSTUVWXYZ"
LowerChars == "abcdefghijklmnopqrstuvwxyz"
\* Code-point order of the characters the model uses (ASCII).
CodeOrder == " ().-0123456789" \o UpperChars \o LowerChars

Char(s, i) == SubSeq(s, i, i)

Max2(a, b) == IF a >= b THEN a ELSE b

LowerChar(c) ==
    IF \E i \in 1..Len(UpperChars) : Char(UpperChars, i) = c
    THEN Char(LowerChars, CHOOSE i \in 1..Len(UpperChars) : Char(UpperChars, i) = c)
    ELSE c

RECURSIVE LowerRec(_)
LowerRec(s) == IF s = "" THEN "" ELSE LowerChar(Head(s)) \o LowerRec(Tail(s))

RECURSIVE LStrip(_)
LStrip(s) == IF s # "" /\ Head(s) = " " THEN LStrip(Tail(s)) ELSE s

RECURSIVE RStrip(_)
RStrip(s) ==
    IF s # "" /\ Char(s, Len(s)) = " " THEN RStrip(SubSeq(s, 1, Len(s) - 1)) ELSE s

StripRec(s) == RStrip(LStrip(s))

\* s.split(): the maximal runs of non-whitespace characters, in order.
RECURSIVE SplitFrom(_, _)
SplitFrom(s, cur) ==
    IF s = "" THEN (IF cur = "" THEN <<>> ELSE <<cur>>)
    ELSE IF Head(s) = " "
         THEN (IF cur = "" THEN SplitFrom(Tail(s), "")
               ELSE <<cur>> \o SplitFrom(Tail(s), ""))
         ELSE SplitFrom(Tail(s), cur \o Head(s))

SplitRec(s) == SplitFrom(s, "")

\* ' '.join(toks)
RECURSIVE JoinSp(_)
JoinSp(toks) ==
    IF toks = <<>> THEN ""
    ELSE IF Len(toks) = 1 THEN toks[1]
    ELSE toks[1] \o " " \o JoinSp(Tail(toks))

\* sub in s
InRec(sub, s) ==
    \E i \in 1..(Len(s) - Len(sub) + 1) : SubSeq(s, i, i + Len(sub) - 1) = sub

\* s[:n]
Prefix(s, n) == IF Len(s) <= n THEN s ELSE SubSeq(s, 1, n)

CharOrd(c) == CHOOSE i \in 1..Len(CodeOrder) : Char(CodeOrder, i) = c

\* a < b on Python strings (lexicographic on code points)
RECURSIVE StrLess(_, _)
StrLess(a, b) ==
    IF b = "" THEN FALSE
    ELSE IF a = "" THEN TRUE
    ELSE IF Head(a) = Head(b) THEN StrLess(Tail(a), Tail(b))
    ELSE CharOrd(Head(a)) < CharOrd(Head(b))

\* min(set_of_strings)
MinStr(S) == CHOOSE x \in S : \A y \in S \ {x} : StrLess(x, y)

\* sorted(set_of_strings)
RECURSIVE SortedStrs(_)
SortedStrs(S) ==
    IF S = {} THEN <<>>
    ELSE <<MinStr(S)>> \o SortedStrs(S \ {MinStr(S)})

SeqToSet(q) == {q[i] : i \in 1..Len(q)}

(***************************************************************************)
(* The inputs of the model.                                                *)
(***************************************************************************)
TeamInputs ==
    {"System Admin", "Application", "Out of Linux Scope", "Out of Platform Scope",
     "Web Team"}

ContainsPatterns == {"Security", "Critical Security Flaws"}

RegexPatterns == {"Security.Patch"}

\* Regular expressions re.compile rejects (re.error): a group is not closed.
MalformedPatterns == {"Security.(Patch"}

\* The teams the regex rules of the model are added for.
RegexTeams == {"Out of Linux Scope", "Web Team"}

HostInputs == {"WebServer1"}

OwnerInputs == {"Web Team", "NaN", "system admin"}

Titles ==
    {"Critical Security Flaws", " critical  SECURITY flaws", "Critical Security Patch",
     "Securitas"}

RowHosts == {"WebServer1 ", "unknown-host"}

\* A store with many rules: the title of the rows classified against it, the
\* Application patterns it starts with (each holds words of the title, none is
\* part of the title), the patterns added to it and the teams they are added for.
FuzzyTitle == "Critical Security Patch Kernel"

ManyPatterns ==
    <<"Security Critical", "Patch Critical", "Kernel Critical", "Patch Security",
      "Kernel Security", "Critical Patch", "Critical Kernel", "Security Kernel",
      "Critical Security Kernel">>

LatePatterns == {"Kernel Patch", "Critical Security Patch Kernels"}

LateTeams == {"Application", "System Admin", "Out of Linux Scope", "Web Team"}


\* Patterns that are one pattern once trimmed, and team names that are one
\* team once trimmed, for the rule stores the fuzzy index is built from.
IndexPatterns == {"Security", "Security ", "Critical Security Flaws"}

IndexTeams == {"System Admin", "System Admin ", "Application", "Web Team"}

\* Team names of the system-admin category in another spelling, with the
\* names of two other categories.
AliasTeams == {"System Admin ", "sysadmin", "Application", "Web Team"}

(***************************************************************************)
(* The str methods the engine uses, read from tables over the strings of   *)
(* the model; a table is computed once, by the definitions above.          *)
(***************************************************************************)
GivenStrings ==
    TeamInputs \cup OwnerInputs \cup ContainsPatterns \cup RegexPatterns \cup HostInputs
        \cup Titles \cup RowHosts \cup {FuzzyTitle} \cup SeqToSet(ManyPatterns) \cup LatePatterns
        \cup {"", "Custom Team", "Unclassified", "systemadmin", "sysadmin"}
        \cup IndexPatterns \cup IndexTeams \cup AliasTeams

StrippedStrings == GivenStrings \cup {StripRec(s) : s \in GivenStrings}

LoweredStrings == StrippedStrings \cup {LowerRec(s) : s \in StrippedStrings}

\* The given strings and what strip, lower and ' '.join(split) make of them.
ModelStrings == LoweredStrings \cup {JoinSp(SplitRec(s)) : s \in LoweredStrings}

\* The function f as a table of its values (f @@ <<>> is f, written out).
Tabulated(f) == f @@ <<>>

StripMemo == Tabulated([s \in ModelStrings |-> StripRec(s)])

LowerMemo == Tabulated([s \in ModelStrings |-> LowerRec(s)])

SplitMemo == Tabulated([s \in ModelStrings |-> SplitRec(s)])

\* The patterns of the rules and the titles of the rows.
PatternStrings ==
    ContainsPatterns \cup SeqToSet(ManyPatterns) \cup LatePatterns \cup IndexPatterns

TitleStrings == Titles \cup {FuzzyTitle, ""}

\* The strings of S, trimmed.
StrippedOf(S) == {StripRec(s) : s \in S}

\* The strings of S as _normalize_str gives them.
NormalizedOf(S) == {JoinSp(SplitRec(LowerRec(StripRec(s)))) : s \in S}

\* normalized_pattern in normalized_title
InMemo ==
    Tabulated([q \in NormalizedOf(PatternStrings) \X NormalizedOf(TitleStrings) |->
                  InRec(q[1], q[2])])

\* s.strip()
StrStrip(s) == StripMemo[s]

\* s.lower()
StrLower(s) == LowerMemo[s]

\* s.split()
StrSplit(s) == SplitMemo[s]

\* sub in s
StrIn(sub, s) == InMemo[<<sub, s>>]

(***************************************************************************)
(* rapidfuzz: fuzz.token_set_ratio and process.extract, as the classifier  *)
(* calls them (classifier.py line 226, no processor, no score cutoff).     *)
(* A score is the exact fraction n/d of the 0..100 similarity.             *)
(***************************************************************************)
\* One row of the longest-common-subsequence table for the character c of a:
\* acc[k] is the value for the first k-1 characters of b, prev the row before.
RECURSIVE LCSRow(_, _, _, _)
LCSRow(prev, c, b, acc) ==
    IF Len(acc) > Len(b) THEN acc
    ELSE LCSRow(prev, c, b,
                Append(acc, IF c = Char(b, Len(acc)) THEN prev[Len(acc)] + 1
                            ELSE Max2(prev[Len(acc) + 1], acc[Len(acc)])))

\* (the length test makes TLC evaluate a row before the next one is built)
RECURSIVE LCSRows(_, _, _)
LCSRows(a, b, prev) ==
    IF Len(prev) = 0 \/ a = "" THEN prev
    ELSE LCSRows(Tail(a), b, LCSRow(prev, Head(a), b, <<0>>))

LCSLen(a, b) == LCSRows(a, b, [k \in 1..(Len(b) + 1) |-> 0])[Len(b) + 1]

\* Indel distance: insertions and deletions turning a into b.
IndelDistance(a, b) == Len(a) + Len(b) - 2 * LCSLen(a, b)

\* 100 - 100 * dist / lensum
NormDistance(dist, lensum) ==
    IF lensum = 0 THEN [n |-> 100, d |-> 1]
    ELSE [n |-> 100 * (lensum - dist), d |-> lensum]

ScoreGE(x, y) == x.n * y.d >= y.n * x.d

ScoreMax(x, y) == IF ScoreGE(x, y) THEN x ELSE y

\* score >= k for an integer k
ScoreAtLeast(x, k) == x.n >= k * x.d

\* round(score, 1), in tenths (a tie rounds up; no score of the model is a tie)
RoundTenths(x) == (20 * x.n + x.d) \div (2 * x.d)

\* The three ratios of token_set_ratio, from the length of the joined
\* intersection and the two joined differences; the best of them.
TokenSetBest(sect_len, sep, diff_ab_joined, diff_ba_joined) ==
    IF sect_len = 0
    THEN NormDistance(IndelDistance(diff_ab_joined, diff_ba_joined),
                      Len(diff_ab_joined) + Len(diff_ba_joined))
    ELSE ScoreMax(
             NormDistance(IndelDistance(diff_ab_joined, diff_ba_joined),
                          2 * (sect_len + sep) + Len(diff_ab_joined) + Len(diff_ba_joined)),
             ScoreMax(NormDistance(sep + Len(diff_ab_joined),
                                   2 * sect_len + sep + Len(diff_ab_joined)),
                      NormDistance(sep + Len(diff_ba_joined),
                                   2 * sect_len + sep + Len(diff_ba_joined))))

TokenSetJoined(sect_len, diff_ab_joined, diff_ba_joined) ==
    TokenSetBest(sect_len, IF sect_len # 0 THEN 1 ELSE 0, diff_ab_joined, diff_ba_joined)

TokenSets(tokens_a, tokens_b) ==
    IF tokens_a = {} \/ tokens_b = {} THEN [n |-> 0, d |-> 1]
    ELSE IF tokens_a \cap tokens_b # {}
            /\ (tokens_a \ tokens_b = {} \/ tokens_b \ tokens_a = {})
         THEN [n |-> 100, d |-> 1]
    ELSE TokenSetJoined(Len(JoinSp(SortedStrs(tokens_a \cap tokens_b))),
                        JoinSp(SortedStrs(tokens_a \ tokens_b)),
                        JoinSp(SortedStrs(tokens_b \ tokens_a)))

token_set_ratio(s1, s2) == TokenSets(SeqToSet(SplitRec(s1)), SeqToSet(SplitRec(s2)))

RatioMemo ==
    Tabulated([q \in StrippedOf(TitleStrings) \X StrippedOf(PatternStrings) |->
                  token_set_ratio(q[1], q[2])])

\* scorer(title, candidate)
Ratio(s1, s2) == RatioMemo[<<s1, s2>>]

\* process.extract(title, candidates, scorer, limit): the `limit` best
\* candidates with their scores, best first; equal scores keep the candidates'
\* order.
ExtractBetter(scores, i, j) ==
    \/ ~ScoreGE(scores[j], scores[i])
    \/ (ScoreGE(scores[j], scores[i]) /\ ScoreGE(scores[i], scores[j]) /\ i < j)

ExtractBest(scores, left) ==
    CHOOSE i \in left : \A j \in left \ {i} : ExtractBetter(scores, i, j)

RECURSIVE ExtractOrder(_, _)
ExtractOrder(scores, left) ==
    IF left = {} THEN <<>>
    ELSE <<ExtractBest(scores, left)>>
             \o ExtractOrder(scores, left \ {ExtractBest(scores, left)})

ExtractTop(candidates, scores, order, limit) ==
    [k \in 1..(IF Len(order) <= limit THEN Len(order) ELSE limit) |->
        [pat |-> candidates[order[k]], scr |-> scores[order[k]]]]

ExtractScored(candidates, scores, limit) ==
    ExtractTop(candidates, scores, ExtractOrder(scores, 1..Len(candidates)), limit)

process_extract(title, candidates, limit) ==
    ExtractScored(candidates, [i \in 1..Len(candidates) |-> Ratio(title, candidates[i])],
                  limit)

(***************************************************************************)
(* re.search(regex, title, re.IGNORECASE) for the regular expressions of   *)
(* the model: literal characters, '.' for any character, and parentheses,  *)
(* which must balance (re.error otherwise) and only group.                 *)
(***************************************************************************)
RECURSIVE ParenDepth(_, _)
ParenDepth(rx, depth) ==
    IF depth < 0 THEN depth
    ELSE IF rx = "" THEN depth
    ELSE ParenDepth(Tail(rx), IF Head(rx) = "(" THEN depth + 1
                              ELSE IF Head(rx) = ")" THEN depth - 1 ELSE depth)

\* re_error with every regular expression accepted.
NoReError(rx) == FALSE

re_error(rx) == ParenDepth(rx, 0) # 0

RECURSIVE DropParens(_)
DropParens(rx) ==
    IF rx = "" THEN ""
    ELSE IF Head(rx) \in {"(", ")"} THEN DropParens(Tail(rx))
    ELSE Head(rx) \o DropParens(Tail(rx))

RECURSIVE ReMatchHere(_, _)
ReMatchHere(rx, s) ==
    IF rx = "" THEN TRUE
    ELSE IF s = "" THEN FALSE
    ELSE /\ (Head(rx) = "." \/ LowerChar(Head(rx)) = LowerChar(Head(s)))
         /\ ReMatchHere(Tail(rx), Tail(s))

SearchRec(rx, s) ==
    \E i \in 1..(Len(s) + 1) : ReMatchHere(DropParens(rx), SubSeq(s, i, Len(s)))

SearchMemo ==
    Tabulated([q \in (RegexPatterns \cup MalformedPatterns) \X StrippedOf(TitleStrings) |->
                  SearchRec(q[1], q[2])])

re_search(rx, s) == SearchMemo[<<rx, s>>]

(***************************************************************************)
(* vaas/constants.py                                                       *)
(***************************************************************************)
TEAM_SYSADMIN == "system admin"
TEAM_APPLICATION == "application"
TEAM_LINUX_SCOPE == "out of linux scope"
TEAM_PLATFORM_SCOPE == "out of platform scope"
TEAM_UNCLASSIFIED == "unclassified"
TEAM_SYSADMIN_DISPLAY == "System Admin"
TEAM_APPLICATION_DISPLAY == "Application"
TEAM_LINUX_SCOPE_DISPLAY == "Out of Linux Scope"
TEAM_PLATFORM_SCOPE_DISPLAY == "Out of Platform Scope"
TEAM_UNCLASSIFIED_DISPLAY == "Unclassified"

\* classifier.py
FUZZY_THRESHOLD == 85
FUZZY_LIMIT == 10
REASON_EXCERPT == 60
FUZZY_EXCERPT == 40

\* Python None where a string or a number may stand: None is <<>>, a value v is <<v>>.
None == <<>>
Some(v) == <<v>>

(***************************************************************************)
(* Python dict, in insertion order: a sequence of [k, v] entries.  A value *)
(* stored under a key the dict already has replaces the old one in place.  *)
(***************************************************************************)
DictHas(d, key) == \E i \in 1..Len(d) : d[i].k = key

DictGet(d, key) == d[CHOOSE i \in 1..Len(d) : d[i].k = key].v

DictPut(d, key, val) ==
    IF DictHas(d, key)
    THEN [i \in 1..Len(d) |-> IF d[i].k = key THEN [k |-> key, v |-> val] ELSE d[i]]
    ELSE Append(d, [k |-> key, v |-> val])

DictKeys(d) == [i \in 1..Len(d) |-> d[i].k]

(***************************************************************************)
(* KnowledgeBase (vaas/core/knowledge.py): the rules table is a sequence   *)
(* of rows [title_pattern, team, rule_type] in rowid order, title_pattern  *)
(* unique; the hostnames table is a function from hostname to team.        *)
(***************************************************************************)
\* A rule as load_title_rules builds it.  A None pattern is "": the engine
\* tests patterns by truth value only, and None and '' are both false.
RuleObj(pat, r_type) ==
    IF r_type = "regex"
    THEN [field |-> "Title", contains |-> "", regex |-> pat]
    ELSE [field |-> "Title", contains |-> pat, regex |-> ""]

\* rules[team].append(rule), rules a dict of lists
AppendRule(rules, team, obj) ==
    DictPut(rules, team,
            Append(IF DictHas(rules, team) THEN DictGet(rules, team) ELSE <<>>, obj))

RECURSIVE LoadRuleRows(_, _)
LoadRuleRows(rows, rules) ==
    IF rows = <<>> THEN rules
    ELSE LoadRuleRows(Tail(rows),
                      AppendRule(rules, Head(rows).team,
                                 RuleObj(Head(rows).title_pattern, Head(rows).rule_type)))

load_title_rules(rule_rows) == LoadRuleRows(rule_rows, <<>>)

load_hostname_map(host_rows) == host_rows

\* get_all_teams: the teams of both tables, empty names left out.
get_all_teams(rule_rows, host_rows) ==
    {t \in {host_rows[h] : h \in DOMAIN host_rows}
           \cup {rule_rows[i].team : i \in 1..Len(rule_rows)} : t # ""}

\* A plain INSERT, were title_pattern not unique.
InsertRule(rule_rows, title, team, rule_type) ==
    Append(rule_rows, [title_pattern |-> title, team |-> team, rule_type |-> rule_type])

\* INSERT OR REPLACE on the unique title_pattern: the old row goes, the new
\* row gets the next rowid.
UpsertRule(rule_rows, title, team, rule_type) ==
    Append(SelectSeq(rule_rows, LAMBDA r : r.title_pattern # title),
           [title_pattern |-> title, team |-> team, rule_type |-> rule_type])

\* The existing teams add_title_rule takes `team` for: those that differ from
\* it in letter case only.
SameTeams(rule_rows, host_rows, team) ==
    {e \in get_all_teams(rule_rows, host_rows) : StrLower(e) = StrLower(team)}

\* The team names add_title_rule may store for `team`: an existing team that
\* differs only in letter case (the first found in a set, so any of them),
\* else the name as given.
StoredTeamNames(rule_rows, host_rows, team) ==
    IF SameTeams(rule_rows, host_rows, team) = {} THEN {team}
    ELSE SameTeams(rule_rows, host_rows, team)

delete_title_rule(rule_rows, title) ==
    SelectSeq(rule_rows, LAMBDA r : r.title_pattern # title)

\* add_hostname_rule: the hostname is stored trimmed and lowercased.
add_hostname_rule(host_rows, hostname, team) ==
    [h \in DOMAIN host_rows \cup {StrLower(StrStrip(hostname))} |->
        IF h \in DOMAIN host_rows /\ h # StrLower(StrStrip(hostname))
        THEN host_rows[h] ELSE team]

delete_hostname_rule(host_rows, hostname) ==
    [h \in DOMAIN host_rows \ {StrLower(StrStrip(hostname))} |-> host_rows[h]]

(***************************************************************************)
(* RuleEngine (vaas/core/classifier.py).  `self` is the engine's state: a  *)
(* record of hostname_map, rules, fuzzy_candidates, normalized_patterns    *)
(* and the three cached team keys.  A None team key is "": the code tests  *)
(* keys by truth value, and no team name normalizes to a category from ''. *)
(***************************************************************************)
_normalize_str(s) == IF s = "" THEN "" ELSE JoinSp(StrSplit(StrLower(StrStrip(s))))

normalize_team_key(t) == IF t # "" THEN StrLower(StrStrip(t)) ELSE ""

_priority_teams_lower ==
    {TEAM_APPLICATION, TEAM_SYSADMIN, TEAM_LINUX_SCOPE, TEAM_PLATFORM_SCOPE}

\* next((t for t in rules.keys() if normalize_team_key(t) == name), None)
RECURSIVE FirstTeamKey(_, _)
FirstTeamKey(rules, name) ==
    IF rules = <<>> THEN ""
    ELSE IF normalize_team_key(Head(rules).k) = name THEN Head(rules).k
    ELSE FirstTeamKey(Tail(rules), name)

\* `a or b` on team keys
KeyOr(a, b) == IF a # "" THEN a ELSE b

\* fuzzy_candidates[pattern_clean] = team
\* normalized_patterns[pattern_clean] = _normalize_str(pattern)
IndexPattern(idx, team, pattern, pattern_clean) ==
    [fuzzy_candidates |-> DictPut(idx.fuzzy_candidates, pattern_clean, team),
     normalized_patterns |->
         DictPut(idx.normalized_patterns, pattern_clean, _normalize_str(pattern))]

\* for r in rule_list: the contains patterns go into the index under `team`.
RECURSIVE IndexRules(_, _, _)
IndexRules(idx, team, rule_list) ==
    IF rule_list = <<>> THEN idx
    ELSE IndexRules(IF Head(rule_list).contains # ""
                    THEN IndexPattern(idx, team, Head(rule_list).contains,
                                      StrStrip(Head(rule_list).contains))
                    ELSE idx,
                    team, Tail(rule_list))

\* if key: the rules of the team `key` go into the index.
IndexTeam(idx, rules, key) ==
    IF key # "" THEN IndexRules(idx, key, DictGet(rules, key)) ELSE idx

\* 2. Load Other Teams: every team that is not a priority team, in dict order.
RECURSIVE IndexOtherTeams(_, _, _)
IndexOtherTeams(idx, rules, i) ==
    IF i > Len(rules) THEN idx
    ELSE IF normalize_team_key(rules[i].k) \in _priority_teams_lower
         THEN IndexOtherTeams(idx, rules, i + 1)
         ELSE IndexOtherTeams(IndexRules(idx, rules[i].k, rules[i].v), rules, i + 1)

\* 3. and 4.: for name in names: the first team key of that name, if any.
RECURSIVE IndexNamedTeams(_, _, _)
IndexNamedTeams(idx, rules, names) ==
    IF names = <<>> THEN idx
    ELSE IndexNamedTeams(IndexTeam(idx, rules, FirstTeamKey(rules, Head(names))),
                         rules, Tail(names))

\* Steps 1 to 4 of _build_fuzzy_index, from the empty index.
IndexSteps(rules, _cached_app_key) ==
    IndexNamedTeams(
        IndexNamedTeams(
            IndexOtherTeams(
                IndexTeam([fuzzy_candidates |-> <<>>, normalized_patterns |-> <<>>],
                          rules, _cached_app_key),
                rules, 1),
            rules, <<TEAM_LINUX_SCOPE, TEAM_PLATFORM_SCOPE>>),
        rules, <<TEAM_SYSADMIN, "systemadmin", "sysadmin">>)

\* The cached team keys, then the index built with them.
IndexWithKeys(rules, keys) == keys @@ IndexSteps(rules, keys._cached_app_key)

_build_fuzzy_index(rules) ==
    IndexWithKeys(rules,
        [_cached_app_key |-> FirstTeamKey(rules, TEAM_APPLICATION),
         _cached_sysadmin_key |-> FirstTeamKey(rules, TEAM_SYSADMIN),
         _cached_scope_key |-> KeyOr(FirstTeamKey(rules, TEAM_LINUX_SCOPE),
                                     FirstTeamKey(rules, TEAM_PLATFORM_SCOPE))])

\* The engine after self.hostname_map and self.rules are loaded.
LoadedEngine(hostname_map, rules) ==
    [hostname_map |-> hostname_map, rules |-> rules] @@ _build_fuzzy_index(rules)

_load_all_rules(rule_rows, host_rows) ==
    LoadedEngine(load_hostname_map(host_rows), load_title_rules(rule_rows))

\* (matched_team, reason); (None, None) is NoMatch.
NoMatch == [team |-> "", desc |-> ""]

\* The pattern normalized: from the cache if pattern_clean is in it.
NormalizedPattern(self, pattern, pattern_clean) ==
    IF DictHas(self.normalized_patterns, pattern_clean)
    THEN DictGet(self.normalized_patterns, pattern_clean)
    ELSE _normalize_str(pattern)

\* One rule of _check_rules_for_team's loop, its pattern normalized: the reason
\* of its match, "" when the rule does not match.
RuleReasonFor(rule, normalized_pattern, title, normalized_title) ==
    IF rule.field # "Title" THEN ""
    ELSE IF rule.contains # "" /\ normalized_pattern = normalized_title
         THEN "Title exact match: '" \o Prefix(rule.contains, REASON_EXCERPT) \o "'"
    ELSE IF rule.contains # "" /\ StrIn(normalized_pattern, normalized_title)
         THEN "Title contains: '" \o Prefix(rule.contains, REASON_EXCERPT) \o "'"
    ELSE IF rule.regex # "" /\ ~re_error(rule.regex) /\ re_search(rule.regex, title)
         THEN "Title matches regex pattern"
    ELSE ""

RuleReason(self, rule, title, normalized_title) ==
    RuleReasonFor(rule,
                  IF rule.contains # ""
                  THEN NormalizedPattern(self, rule.contains, StrStrip(rule.contains))
                  ELSE "",
                  title, normalized_title)

\* `reason` if the rule matched, else what the rest of the loop gives
ReasonOr(reason, rest) == IF reason # "" THEN reason ELSE rest

\* for rule in rule_list: the reason of the first rule that matches, else "".
RECURSIVE CheckRuleList(_, _, _, _)
CheckRuleList(self, rule_list, title, normalized_title) ==
    IF rule_list = <<>> THEN ""
    ELSE ReasonOr(RuleReason(self, Head(rule_list), title, normalized_title),
                  CheckRuleList(self, Tail(rule_list), title, normalized_title))

\* return team_name, reason  /  return None, None
MatchOf(team_name, reason) ==
    IF reason # "" THEN [team |-> team_name, desc |-> reason] ELSE NoMatch

_check_rules_for_team(self, team_name, title, normalized_title) ==
    IF ~DictHas(self.rules, team_name) THEN NoMatch
    ELSE MatchOf(team_name,
                 CheckRuleList(self, DictGet(self.rules, team_name), title,
                               normalized_title))

\* `if matched_team:` for a team name
Truthy(team) == team # ""

\* `if matched_team: return matched_team, reason`, else the stages after it
MatchOr(m, rest) == IF Truthy(m.team) THEN m ELSE rest

\* if key: matched_team, reason = self._check_rules_for_team(key, ...)
CheckCachedKey(self, key, title, normalized_title) ==
    IF key # "" THEN _check_rules_for_team(self, key, title, normalized_title)
    ELSE NoMatch

\* for team in self.rules.keys(): the first non-priority team with a match.
RECURSIVE CheckOtherTeams(_, _, _, _)
CheckOtherTeams(self, i, title, normalized_title) ==
    IF i > Len(self.rules) THEN NoMatch
    ELSE IF StrLower(StrStrip(self.rules[i].k)) \in _priority_teams_lower
         THEN CheckOtherTeams(self, i + 1, title, normalized_title)
         ELSE MatchOr(_check_rules_for_team(self, self.rules[i].k, title,
                                            normalized_title),
                      CheckOtherTeams(self, i + 1, title, normalized_title))

_find_rule_match(self, title, normalized_title) ==
    MatchOr(CheckCachedKey(self, self._cached_sysadmin_key, title, normalized_title),
      MatchOr(CheckCachedKey(self, self._cached_scope_key, title, normalized_title),
        MatchOr(CheckOtherTeams(self, 1, title, normalized_title),
                CheckCachedKey(self, self._cached_app_key, title, normalized_title))))

\* CanonicalName without the display names.
NameAsGiven(team_name, team_lower) == team_name

\* The canonical display name of a team name already trimmed and lowercased,
\* else the name as given.
CanonicalName(team_name, team_lower) ==
    IF team_lower = TEAM_SYSADMIN THEN TEAM_SYSADMIN_DISPLAY
    ELSE IF team_lower = TEAM_APPLICATION THEN TEAM_APPLICATION_DISPLAY
    ELSE IF team_lower = TEAM_LINUX_SCOPE THEN TEAM_LINUX_SCOPE_DISPLAY
    ELSE IF team_lower = TEAM_PLATFORM_SCOPE THEN TEAM_PLATFORM_SCOPE_DISPLAY
    ELSE IF team_lower = TEAM_UNCLASSIFIED THEN TEAM_UNCLASSIFIED_DISPLAY
    ELSE team_name

_normalize_team_name(team_name) ==
    IF team_name = "" THEN TEAM_UNCLASSIFIED_DISPLAY
    ELSE CanonicalName(team_name, StrLower(StrStrip(team_name)))

_get_default_result ==
    [Assigned_Team |-> "Unclassified",
     Reason |-> "No matching rule",
     Needs_Review |-> TRUE,
     Method |-> "None",
     Fuzzy_Score |-> None,
     Matched_Rule |-> None]

\* f"{score:.0f}"
ScoreText(score) == ToString((2 * score.n + score.d) \div (2 * score.d))

\* f"Fuzzy: '{pattern[:40]}' ({score:.0f}%)"
FuzzyText(fuzzy_pattern, fuzzy_score) ==
    "Fuzzy: '" \o Prefix(fuzzy_pattern, FUZZY_EXCERPT) \o "' ("
        \o ScoreText(fuzzy_score) \o "%)"

\* self.hostname_map.get(hostname_lower), None as ""
HostOwner(self, hostname_lower) ==
    IF hostname_lower \in DOMAIN self.hostname_map
    THEN self.hostname_map[hostname_lower] ELSE ""

\* HasOwner without the lowercasing of the owner.
HasOwnerCaseSensitive(host_owner) ==
    host_owner # "" /\ host_owner \notin {"nan", "none", ""}

HasOwner(host_owner) ==
    host_owner # "" /\ StrLower(host_owner) \notin {"nan", "none", ""}

\* (assigned_team, reason, needs_review) for the owner the map gave
HostnameResult(host_owner, rule_desc, is_fuzzy, fuzzy_pattern, fuzzy_score) ==
    IF is_fuzzy
    THEN IF HasOwner(host_owner)
         THEN [team |-> _normalize_team_name(host_owner),
               reason |-> FuzzyText(fuzzy_pattern, fuzzy_score)
                              \o " -> Hostname: " \o host_owner,
               needs_review |-> TRUE]
         ELSE [team |-> "Application",
               reason |-> FuzzyText(fuzzy_pattern, fuzzy_score) \o ", Hostname unknown",
               needs_review |-> TRUE]
    ELSE IF HasOwner(host_owner)
         THEN [team |-> _normalize_team_name(host_owner),
               reason |-> rule_desc \o " -> Hostname Owner: " \o host_owner,
               needs_review |-> FALSE]
         ELSE [team |-> "Application",
               reason |-> rule_desc \o ", but Hostname Owner unknown",
               needs_review |-> TRUE]

_apply_hostname_lookup(self, hostname_lower, rule_desc, is_fuzzy, fuzzy_pattern, fuzzy_score) ==
    HostnameResult(HostOwner(self, hostname_lower), rule_desc, is_fuzzy, fuzzy_pattern,
                   fuzzy_score)

\* The category of a fuzzy match's team: lowercased, not trimmed.
FuzzyCategoryOf(team_lower) ==
    IF team_lower = TEAM_SYSADMIN THEN "sysadmin"
    ELSE IF team_lower \in {TEAM_LINUX_SCOPE, TEAM_PLATFORM_SCOPE} THEN "scope"
    ELSE IF team_lower = TEAM_APPLICATION THEN "app"
    ELSE "other"

FuzzyCategory(team) == FuzzyCategoryOf(StrLower(team))

\* (pattern, score, team) of every good match, in order
WithTeams(self, good_matches) ==
    [i \in 1..Len(good_matches) |->
        [pat |-> good_matches[i].pat, scr |-> good_matches[i].scr,
         team |-> DictGet(self.fuzzy_candidates, good_matches[i].pat)]]

\* categories[name]: the matches of that category, in order.
Categorized(matches) ==
    [c \in {"sysadmin", "scope", "other", "app"} |->
        SelectSeq(matches, LAMBDA m : FuzzyCategory(m.team) = c)]

_categorize_fuzzy_matches(self, good_matches) == Categorized(WithTeams(self, good_matches))

\* max(matches, key=score): the first of the best.
FirstMax(matches) ==
    matches[CHOOSE i \in 1..Len(matches) :
                /\ \A j \in 1..Len(matches) : ScoreGE(matches[i].scr, matches[j].scr)
                /\ \A j \in 1..(i - 1) : ~ScoreGE(matches[j].scr, matches[i].scr)]

\* _select_best_fuzzy_match by score alone: the best match of all categories.
SelectBestByScore(categories) ==
    Some(FirstMax(categories["sysadmin"] \o categories["scope"] \o categories["other"]
                      \o categories["app"]))

\* None, or the chosen (pat, scr, team) as Some
_select_best_fuzzy_match(categories) ==
    IF categories["sysadmin"] # <<>> THEN Some(FirstMax(categories["sysadmin"]))
    ELSE IF categories["scope"] # <<>> THEN Some(FirstMax(categories["scope"]))
    ELSE IF categories["other"] # <<>> THEN Some(FirstMax(categories["other"]))
    ELSE IF categories["app"] # <<>> THEN Some(FirstMax(categories["app"]))
    ELSE None

\* The result dict of a rule match.
RuleResult(assigned_team, reason, needs_review, rule_desc) ==
    [Assigned_Team |-> assigned_team,
     Reason |-> reason,
     Needs_Review |-> needs_review,
     Method |-> "Rule",
     Fuzzy_Score |-> None,
     Matched_Rule |-> Some(rule_desc)]

\* assigned_team, reason, needs_review = self._apply_hostname_lookup(...)
RuleResultByHost(host, rule_desc) ==
    RuleResult(host.team, host.reason, host.needs_review, rule_desc)

\* ApplyRuleFor with every matched team trusted: assigned as named, no review.
ApplyRuleTrustingTeam(self, matched_team, team_lower, rule_desc, hostname_lower) ==
    RuleResult(matched_team, rule_desc, FALSE, rule_desc)

\* _apply_rule_match for a matched team whose trimmed, lowercased name is team_lower
ApplyRuleFor(self, matched_team, team_lower, rule_desc, hostname_lower) ==
    IF team_lower = TEAM_APPLICATION
    THEN RuleResultByHost(
             _apply_hostname_lookup(self, hostname_lower, rule_desc, FALSE, "", None),
             rule_desc)
    ELSE IF team_lower \in {TEAM_SYSADMIN, TEAM_LINUX_SCOPE, TEAM_PLATFORM_SCOPE}
    THEN RuleResult(_normalize_team_name(matched_team), rule_desc, FALSE, rule_desc)
    ELSE RuleResult("Unclassified",
                    "Rule matched '" \o matched_team \o "' but outside strict scope",
                    TRUE, rule_desc)

_apply_rule_match(self, matched_team, rule_desc, hostname_lower) ==
    ApplyRuleFor(self, matched_team, StrLower(StrStrip(matched_team)), rule_desc,
                 hostname_lower)

\* The result dict of a fuzzy match.
FuzzyResult(assigned_team, reason, match_pattern, score) ==
    [Assigned_Team |-> assigned_team,
     Reason |-> reason,
     Needs_Review |-> TRUE,
     Method |-> "Fuzzy",
     Fuzzy_Score |-> Some(RoundTenths(score)),
     Matched_Rule |-> Some(match_pattern)]

\* FuzzyResultByHost with the review flag left to the hostname owner: no
\* review when the owner is known.
FuzzyResultTrustingOwner(host, match_pattern, score) ==
    [FuzzyResult(host.team, host.reason, match_pattern, score)
        EXCEPT !.Needs_Review = (host.team = "Application")]

\* assigned_team, reason, _ = self._apply_hostname_lookup(...)
FuzzyResultByHost(host, match_pattern, score) ==
    FuzzyResult(host.team, host.reason, match_pattern, score)

_apply_fuzzy_match(self, chosen, hostname_lower) ==
    IF StrLower(chosen.team) = TEAM_APPLICATION
    THEN FuzzyResultByHost(
             _apply_hostname_lookup(self, hostname_lower, "", TRUE, chosen.pat, chosen.scr),
             chosen.pat, chosen.scr)
    ELSE FuzzyResult(_normalize_team_name(chosen.team), FuzzyText(chosen.pat, chosen.scr),
                     chosen.pat, chosen.scr)

\* GoodMatches with a score above the threshold, not at it.
GoodMatchesAboveThreshold(self, title) ==
    SelectSeq(process_extract(title, DictKeys(self.fuzzy_candidates), FUZZY_LIMIT),
              LAMBDA m : ~ScoreGE([n |-> FUZZY_THRESHOLD, d |-> 1], m.scr))

\* The matches of the fuzzy stage that reach the threshold, best first.
GoodMatches(self, title) ==
    SelectSeq(process_extract(title, DictKeys(self.fuzzy_candidates), FUZZY_LIMIT),
              LAMBDA m : ScoreAtLeast(m.scr, FUZZY_THRESHOLD))

\* if chosen: return self._apply_fuzzy_match(chosen, ...); return None
ApplyChosen(self, chosen, hostname_lower) ==
    IF chosen # None THEN Some(_apply_fuzzy_match(self, chosen[1], hostname_lower))
    ELSE None

\* if not good_matches: return None; else categorize, select, apply
FuzzyFrom(self, good_matches, hostname_lower) ==
    IF good_matches = <<>> THEN None
    ELSE ApplyChosen(self,
                     _select_best_fuzzy_match(_categorize_fuzzy_matches(self, good_matches)),
                     hostname_lower)

\* None, or the result dict as Some
_try_fuzzy_match(self, title, hostname_lower) ==
    IF self.fuzzy_candidates = <<>> THEN None
    ELSE FuzzyFrom(self, GoodMatches(self, title), hostname_lower)

\* FuzzyOrDefault with the default result not marked for review.
FuzzyOrUnreviewed(fuzzy_result) ==
    IF fuzzy_result # None THEN fuzzy_result[1]
    ELSE [_get_default_result EXCEPT !.Needs_Review = FALSE]

\* if fuzzy_result: return fuzzy_result; return self._get_default_result()
FuzzyOrDefault(fuzzy_result) ==
    IF fuzzy_result # None THEN fuzzy_result[1] ELSE _get_default_result

\* _classify_single_row once the rule stage gave m
ClassifyAfterRules(self, m, title, hostname_lower) ==
    IF Truthy(m.team) THEN _apply_rule_match(self, m.team, m.desc, hostname_lower)
    ELSE FuzzyOrDefault(_try_fuzzy_match(self, title, hostname_lower))

_classify_single_row(self, title, hostname) ==
    ClassifyAfterRules(self, _find_rule_match(self, title, _normalize_str(title)), title,
                       IF hostname # "" THEN StrLower(StrStrip(hostname)) ELSE "")

(***************************************************************************)
(* predict and reclassify_data.  A DataFrame is a sequence of rows, a row  *)
(* a record of its columns; the rows of one frame have the same columns.   *)
(***************************************************************************)
ClassificationColumns ==
    {"Assigned_Team", "Reason", "Needs_Review", "Method", "Fuzzy_Score", "Matched_Rule"}

\* The float NaN pandas puts where a row has no value for a column of its
\* frame: a value of its own, equal to no str.  The columns that hold bool
\* values are never left out of a row of the model.
NaN == "float('nan')"

BooleanColumns == {"Needs_Review"}

IsNaN(col, v) == col \notin BooleanColumns /\ v = NaN

\* pd.DataFrame(data_list): every row gets every column of the list, NaN
\* where the dict has no such key.
FrameColumns(data_list) == UNION {DOMAIN data_list[i] : i \in 1..Len(data_list)}

FrameRow(row, columns) ==
    Tabulated([c \in columns |-> IF c \in DOMAIN row THEN row[c] ELSE NaN])

RECURSIVE FrameRows(_, _)
FrameRows(data_list, columns) ==
    IF data_list = <<>> THEN <<>>
    ELSE <<FrameRow(Head(data_list), columns)>> \o FrameRows(Tail(data_list), columns)

DataFrame(data_list) == FrameRows(data_list, FrameColumns(data_list))

\* clean_nan on one row, and on the list of rows: NaN becomes None.
CleanRow(row) ==
    Tabulated([c \in DOMAIN row |-> IF IsNaN(c, row[c]) THEN None ELSE row[c]])

RECURSIVE clean_nan(_)
clean_nan(rows) ==
    IF rows = <<>> THEN <<>> ELSE <<CleanRow(Head(rows))>> \o clean_nan(Tail(rows))

\* df[col].fillna('') of a value
FillNa(col, v) == IF IsNaN(col, v) THEN "" ELSE v

\* df[col].fillna('') of a row, '' when the frame has no such column
Cell(row, col) == IF col \in DOMAIN row THEN FillNa(col, row[col]) ELSE ""

\* col_map: the column names predict takes for hostname, Title and OS.
RenameColumn(c) ==
    IF c \in {"Hostname", "DNS Name", "Computer Name"} THEN "hostname"
    ELSE IF c \in {"Vulnerability", "Name", "Vulnerability Title", "QID"} THEN "Title"
    ELSE IF c \in {"OS Name", "Operating System"} THEN "OS"
    ELSE c

\* df.rename(columns=col_map) of a row; no row of the model has two names of
\* one column.
RenamedRow(row) ==
    Tabulated([c \in {RenameColumn(k) : k \in DOMAIN row} |->
                  row[CHOOSE k \in DOMAIN row : RenameColumn(k) = c]])

\* The columns the frame came with, Title and hostname filled.
FilledRow(row) ==
    Tabulated([c \in DOMAIN row |->
                  IF c \in {"Title", "hostname"} THEN FillNa(c, row[c]) ELSE row[c]])

\* One row of predict, its columns renamed: the classification columns are
\* set and the columns the frame came with are kept.  A Title or hostname
\* column added because the frame had none is not in final_column_order, so
\* not in the result.
ClassifiedRow(self, row) ==
    _classify_single_row(self, StrStrip(Cell(row, "Title")), StrStrip(Cell(row, "hostname")))
        @@ FilledRow(row)

PredictRow(self, row) == ClassifiedRow(self, RenamedRow(row))

\* for idx, row in df.iterrows(): every row, in order.
RECURSIVE ClassifiedRows(_, _)
ClassifiedRows(self, df) ==
    IF df = <<>> THEN <<>>
    ELSE <<PredictRow(self, Head(df))>> \o ClassifiedRows(self, Tail(df))

\* Some row of the results has a score.
HasScore(results) == \E i \in DOMAIN results : results[i].Fuzzy_Score # None

\* results_df = pd.DataFrame(results); df['Fuzzy_Score'] = results_df[...].values:
\* a column that holds a float is a float column, and the None of its other
\* rows is NaN; a column of None only, or of strings and None, keeps None.
RECURSIVE ResultsFrame(_, _)
ResultsFrame(results, has_score) ==
    IF results = <<>> THEN <<>>
    ELSE <<IF has_score /\ Head(results).Fuzzy_Score = None
           THEN [Head(results) EXCEPT !.Fuzzy_Score = NaN]
           ELSE Head(results)>> \o ResultsFrame(Tail(results), has_score)

ScoredRows(results) == ResultsFrame(results, HasScore(results))

predict(self, df) == ScoredRows(ClassifiedRows(self, df))

\* (df[col].tolist() if col in df.columns else [default] * len(df))[i]
ColumnOr(df, col, default, i) == IF col \in DOMAIN df[i] THEN df[i][col] ELSE default

\* KeepsManual with no row kept.
KeepsManualNever(data_list, preserve_manual, i) == FALSE

\* preserve_manual and original_methods[i] == 'Manual Override'
KeepsManual(data_list, preserve_manual, i) ==
    preserve_manual /\ ColumnOr(data_list, "Method", "", i) = "Manual Override"

\* ReclassifiedRow with the restore of Method alone.
ReclassifiedRowMethodOnly(fresh, data_list, preserve_manual, i) ==
    IF KeepsManual(data_list, preserve_manual, i)
    THEN [fresh[i] EXCEPT !.Method = "Manual Override"]
    ELSE fresh[i]

\* Row i of reclassify_data's result, after the restore of a manual override.
ReclassifiedRow(fresh, data_list, preserve_manual, i) ==
    IF KeepsManual(data_list, preserve_manual, i)
    THEN [fresh[i] EXCEPT !.Assigned_Team = ColumnOr(data_list, "Assigned_Team", "", i),
                          !.Method = "Manual Override",
                          !.Needs_Review = ColumnOr(data_list, "Needs_Review", TRUE, i)]
    ELSE fresh[i]

\* Reclassified with the two counters taking each other's count.
ReclassifiedCountsSwapped(fresh, data_list, preserve_manual) ==
    [rows |-> [i \in 1..Len(fresh) |->
                  ReclassifiedRow(fresh, data_list, preserve_manual, i)],
     team_changes |->
         Cardinality({i \in 1..Len(fresh) :
             /\ ~KeepsManual(data_list, preserve_manual, i)
             /\ ColumnOr(data_list, "Method", "", i) = "Fuzzy"
             /\ fresh[i].Method = "Rule"}),
     method_changes |->
         Cardinality({i \in 1..Len(fresh) :
             /\ ~KeepsManual(data_list, preserve_manual, i)
             /\ fresh[i].Assigned_Team # ColumnOr(data_list, "Assigned_Team", "", i)})]

\* Reclassified with the rows kept as manual overrides counted as well.
ReclassifiedCountingKept(fresh, data_list, preserve_manual) ==
    [rows |-> [i \in 1..Len(fresh) |->
                  ReclassifiedRow(fresh, data_list, preserve_manual, i)],
     method_changes |->
         Cardinality({i \in 1..Len(fresh) :
             /\ ColumnOr(data_list, "Method", "", i) = "Fuzzy"
             /\ fresh[i].Method = "Rule"}),
     team_changes |->
         Cardinality({i \in 1..Len(fresh) :
             fresh[i].Assigned_Team # ColumnOr(data_list, "Assigned_Team", "", i)})]

\* (reclassified, method_changes, team_changes) from the fresh classification
Reclassified(fresh, data_list, preserve_manual) ==
    [rows |-> [i \in 1..Len(fresh) |->
                  ReclassifiedRow(fresh, data_list, preserve_manual, i)],
     method_changes |->
         Cardinality({i \in 1..Len(fresh) :
             /\ ~KeepsManual(data_list, preserve_manual, i)
             /\ ColumnOr(data_list, "Method", "", i) = "Fuzzy"
             /\ fresh[i].Method = "Rule"}),
     team_changes |->
         Cardinality({i \in 1..Len(fresh) :
             /\ ~KeepsManual(data_list, preserve_manual, i)
             /\ fresh[i].Assigned_Team # ColumnOr(data_list, "Assigned_Team", "", i)})]

reclassify_data(self, data_list, preserve_manual) ==
    IF data_list = <<>>
    THEN [rows |-> <<>>, method_changes |-> 0, team_changes |-> 0]
    ELSE Reclassified(clean_nan(predict(self, DataFrame(data_list))), DataFrame(data_list),
                      preserve_manual)

(***************************************************************************)
(* The frames the calls are made with.                                     *)
(***************************************************************************)
\* A row as the frontend sends it back: a classified row, perhaps edited by hand.
(***************************************************************************)
(* The category each part of the engine gives a team name.                 *)
(***************************************************************************)
\* _build_fuzzy_index: the step that loads the team's rules last.
IndexCategory(team) ==
    IF normalize_team_key(team) \in {TEAM_SYSADMIN, "systemadmin", "sysadmin"} THEN "sysadmin"
    ELSE IF normalize_team_key(team) \in {TEAM_LINUX_SCOPE, TEAM_PLATFORM_SCOPE} THEN "scope"
    ELSE IF normalize_team_key(team) = TEAM_APPLICATION THEN "app"
    ELSE "other"

\* _find_rule_match: the cached key, or the loop over the other teams, that
\* checks the team's rules.
SearchCategory(team) ==
    IF normalize_team_key(team) = TEAM_SYSADMIN THEN "sysadmin"
    ELSE IF normalize_team_key(team) \in {TEAM_LINUX_SCOPE, TEAM_PLATFORM_SCOPE} THEN "scope"
    ELSE IF StrLower(StrStrip(team)) \in _priority_teams_lower THEN "app"
    ELSE "other"

\* _apply_rule_match: the branch taken for the matched team.
RuleBranch(team_lower) ==
    IF team_lower = TEAM_APPLICATION THEN "app"
    ELSE IF team_lower = TEAM_SYSADMIN THEN "sysadmin"
    ELSE IF team_lower \in {TEAM_LINUX_SCOPE, TEAM_PLATFORM_SCOPE} THEN "scope"
    ELSE "other"

\* _apply_fuzzy_match: the hostname lookup, or the team's own name.
FuzzyBranchIsApp(team) == StrLower(team) = TEAM_APPLICATION

\* The names get_known_teams adds whatever the store holds.
NoMandatoryTeams == {}

MandatoryTeams == {"System Admin", "Application", "Out of Linux Scope", "Unclassified"}

\* get_known_teams: the teams of the store, of the engine's hostname_map and
\* of its rules, normalized, with the mandatory names, sorted.
get_known_teams(self, rule_rows, host_rows) ==
    SortedStrs({_normalize_team_name(t) :
                   t \in {u \in get_all_teams(rule_rows, host_rows)
                                   \cup {self.hostname_map[h] : h \in DOMAIN self.hostname_map}
                                   \cup SeqToSet(DictKeys(self.rules)) : u # ""}}
               \cup MandatoryTeams)

PriorRow(title, hostname, team, method, needs_review) ==
    [Title |-> title, hostname |-> hostname, Assigned_Team |-> team,
     Reason |-> "as classified before", Needs_Review |-> needs_review,
     Method |-> method, Fuzzy_Score |-> None, Matched_Rule |-> None]

PredictFrames ==
    {<<[Title |-> " critical  SECURITY flaws", hostname |-> "unknown-host"],
       [Title |-> "Securitas", hostname |-> "WebServer1 "],
       [Title |-> "Critical Security Patch", hostname |-> "WebServer1 "]>>}

\* The second frame is as the tests build it: without the columns Reason,
\* Needs_Review, Fuzzy_Score and Matched_Rule.
ReclassifyFrames ==
    {<<PriorRow("Critical Security Patch", "unknown-host", "System Admin", "Fuzzy", TRUE),
       PriorRow("Securitas", "WebServer1 ", "Unclassified", "Manual Override", FALSE),
       PriorRow("Critical Security Patch", "WebServer1 ", "Unclassified", "None", TRUE)>>,
     <<[Title |-> " critical  SECURITY flaws", hostname |-> "unknown-host",
        Assigned_Team |-> "Unclassified", Method |-> "None"],
       [Title |-> "Critical Security Flaws", hostname |-> "WebServer1 ",
        Assigned_Team |-> "Custom Team", Method |-> "Manual Override"]>>}

(***************************************************************************)
(* The state: the two tables of the rule store, the process-wide engine    *)
(* (web/routes.py: classifier = RuleEngine()), what the last call took and *)
(* returned, and where the requests being handled are.                     *)
(***************************************************************************)
VARIABLES kb_rules, kb_hostnames, classifier, last, requests,
          scheduler, loops, callers,
          _login_attempts, _lockouts, clock, logins,
          users, session, response

\* The engine and its store, and the services beside them.
engine == <<kb_rules, kb_hostnames, classifier, last, requests>>

services ==
    <<scheduler, loops, callers, _login_attempts, _lockouts, clock, logins,
      users, session, response>>

vars == <<engine, services>>

\* No request is being handled.
NoRequests == [rule |-> [pc |-> "idle"], classify |-> [pc |-> "idle"]]

NoHostnames == [h \in {} |-> ""]

\* The two request threads that may call the scheduler at once.
Callers == {"c1", "c2"}

\* CleanupScheduler.__init__, no loop thread started, no call under way.
SchedulerInit ==
    /\ scheduler = [_running |-> FALSE, _stop_event |-> FALSE, _thread |-> 0]
    /\ loops = <<>>
    /\ callers = [c \in Callers |-> [pc |-> "idle", restart |-> FALSE]]

\* The login requests that may be handled at once.
LoginRequests == {"r1", "r2"}

\* An empty dict.
NoEntries == [k \in {} |-> <<>>]

\* auth/rate_limit.py as imported: no attempt recorded, no lockout, time 0.
LimiterInit ==
    /\ _login_attempts = NoEntries
    /\ _lockouts = NoEntries
    /\ clock = 0
    /\ logins = [r \in LoginRequests |-> [pc |-> "idle"]]

\* An empty users table, a browser without a session, no request answered.
AuthInit ==
    /\ users = NoEntries
    /\ session = ""
    /\ response = [outcome |-> "none"]

ServicesInit == SchedulerInit /\ LimiterInit /\ AuthInit

Init ==
    /\ kb_rules = <<>>
    /\ kb_hostnames = NoHostnames
    /\ classifier = _load_all_rules(<<>>, NoHostnames)
    /\ last = [op |-> "init"]
    /\ requests = NoRequests
    /\ ServicesInit

\* KnowledgeBase.add_title_rule(title, team, rule_type), then reload_rules().
AddTitleRule(title, team, rule_type) ==
    \E stored \in StoredTeamNames(kb_rules, kb_hostnames, team) :
        /\ kb_rules' = UpsertRule(kb_rules, title, stored, rule_type)
        /\ classifier' = _load_all_rules(kb_rules', kb_hostnames)
        /\ last' = [op |-> "add_title_rule", title |-> title, team |-> stored,
                    rule_type |-> rule_type, given |-> team]
        /\ UNCHANGED <<kb_hostnames, requests, services>>

\* KnowledgeBase.delete_title_rule(title), then reload_rules().
DeleteTitleRule(title) ==
    /\ kb_rules' = delete_title_rule(kb_rules, title)
    /\ classifier' = _load_all_rules(kb_rules', kb_hostnames)
    /\ last' = [op |-> "delete_title_rule"]
    /\ UNCHANGED <<kb_hostnames, requests, services>>

\* KnowledgeBase.add_hostname_rule(hostname, team), then reload_rules().
AddHostnameRule(hostname, team) ==
    /\ kb_hostnames' = add_hostname_rule(kb_hostnames, hostname, team)
    /\ classifier' = _load_all_rules(kb_rules, kb_hostnames')
    /\ last' = [op |-> "add_hostname_rule"]
    /\ UNCHANGED <<kb_rules, requests, services>>

\* KnowledgeBase.delete_hostname_rule(hostname), then reload_rules().
DeleteHostnameRule(hostname) ==
    /\ kb_hostnames' = delete_hostname_rule(kb_hostnames, hostname)
    /\ classifier' = _load_all_rules(kb_rules, kb_hostnames')
    /\ last' = [op |-> "delete_hostname_rule"]
    /\ UNCHANGED <<kb_rules, requests, services>>

\* classifier.predict(df)
Predict(df) ==
    /\ last' = [op |-> "predict", df |-> df, rows |-> predict(classifier, df)]
    /\ UNCHANGED <<kb_rules, kb_hostnames, classifier, requests, services>>

\* classifier.reclassify_data(data_list, preserve_manual); `added` is the title
\* rule the call before this one added and loaded, if it was such a call.
ReclassifyData(data_list, preserve_manual) ==
    /\ last' = [op |-> "reclassify_data",
                added |-> IF last.op = "add_title_rule" THEN Some(last) ELSE None,
                data_list |-> data_list,
                preserve_manual |-> preserve_manual]
                   @@ reclassify_data(classifier, data_list, preserve_manual)
    /\ UNCHANGED <<kb_rules, kb_hostnames, classifier, requests, services>>

Next ==
    \/ \E title \in ContainsPatterns, team \in TeamInputs :
           AddTitleRule(title, team, "contains")
    \/ \E title \in RegexPatterns, team \in RegexTeams :
           AddTitleRule(title, team, "regex")
    \/ \E title \in ContainsPatterns \cup RegexPatterns : DeleteTitleRule(title)
    \/ \E hostname \in HostInputs, team \in OwnerInputs : AddHostnameRule(hostname, team)
    \/ \E hostname \in HostInputs : DeleteHostnameRule(hostname)
    \/ \E df \in PredictFrames : Predict(df)
    \/ \E data_list \in ReclassifyFrames, preserve_manual \in BOOLEAN :
           ReclassifyData(data_list, preserve_manual)

Spec == Init /\ [][Next]_vars

(***************************************************************************)
(* The engine constructed over a store that already holds many rules: the  *)
(* fuzzy stage then has more candidates than process.extract returns.      *)
(***************************************************************************)
\* The rules table with one contains rule of `team` for each of the patterns.
RECURSIVE RuleRowsOf(_, _)
RuleRowsOf(patterns, team) ==
    IF patterns = <<>> THEN <<>>
    ELSE <<[title_pattern |-> Head(patterns), team |-> team, rule_type |-> "contains"]>>
             \o RuleRowsOf(Tail(patterns), team)

ManyRulesFrames == {<<[Title |-> FuzzyTitle, hostname |-> "unknown-host"]>>}

ManyRulesInit ==
    /\ kb_rules = RuleRowsOf(ManyPatterns, "Application")
    /\ kb_hostnames = NoHostnames
    /\ classifier = _load_all_rules(kb_rules, kb_hostnames)
    /\ last = [op |-> "init"]
    /\ requests = NoRequests
    /\ ServicesInit

ManyRulesNext ==
    \/ \E title \in LatePatterns, team \in LateTeams : AddTitleRule(title, team, "contains")
    \/ \E title \in LatePatterns \cup {ManyPatterns[1], ManyPatterns[2]} :
           DeleteTitleRule(title)
    \/ \E df \in ManyRulesFrames : Predict(df)

ManyRulesSpec == ManyRulesInit /\ [][ManyRulesNext]_vars

(***************************************************************************)
(* A store whose regex rules may be malformed.                             *)
(***************************************************************************)
RegexNext ==
    \/ \E title \in RegexPatterns \cup MalformedPatterns, team \in {"System Admin", "Web Team"} :
           AddTitleRule(title, team, "regex")
    \/ \E team \in {"System Admin", "Application"} : AddTitleRule("Security", team, "contains")
    \/ \E title \in RegexPatterns \cup MalformedPatterns \cup {"Security"} :
           DeleteTitleRule(title)
    \/ \E df \in PredictFrames : Predict(df)

RegexSpec == Init /\ [][RegexNext]_vars

(***************************************************************************)
(* reclassify_data over lists whose dicts do not all have the same keys.   *)
(***************************************************************************)
\* The first list has a manual override without Assigned_Team and a column
\* (Owner) only its second row has; the second a column only its first has.
SparseFrames ==
    {<<[Title |-> "Critical Security Flaws", hostname |-> "WebServer1 ",
        Method |-> "Manual Override"],
       [Title |-> " critical  SECURITY flaws", hostname |-> "unknown-host",
        Method |-> "None", Assigned_Team |-> "Unclassified", Owner |-> "ops"]>>,
     <<[Title |-> "Critical Security Patch", hostname |-> "unknown-host",
        Method |-> "Fuzzy", Assigned_Team |-> "System Admin", Owner |-> "ops"],
       [Title |-> "Securitas", hostname |-> "WebServer1 ",
        Method |-> "Manual Override", Assigned_Team |-> "Custom Team"]>>}

\* Tables for predict: Title and hostname under other names, no hostname
\* column, no Title column.
SparseTables ==
    {<<[Name |-> "Critical Security Flaws", Hostname |-> "WebServer1 "]>>,
     <<[Title |-> "Critical Security Patch", Severity |-> "5"]>>,
     <<[Hostname |-> "unknown-host", Severity |-> "5"]>>}

SparseNext ==
    \/ \E title \in ContainsPatterns, team \in TeamInputs :
           AddTitleRule(title, team, "contains")
    \/ \E title \in ContainsPatterns : DeleteTitleRule(title)
    \/ \E data_list \in SparseFrames, preserve_manual \in BOOLEAN :
           ReclassifyData(data_list, preserve_manual)
    \/ \E df \in SparseTables : Predict(df)

SparseSpec == Init /\ [][SparseNext]_vars

(***************************************************************************)
(* The rule store changed without the engine being told: the calls of      *)
(* KnowledgeBase alone, and reload_rules as a call of its own.             *)
(***************************************************************************)
reload_rules(rule_rows, host_rows) == _load_all_rules(rule_rows, host_rows)

\* The store call followed by a reload of the engine, as the route does it.
StoreAndReload(title, team, rule_type) == AddTitleRule(title, team, rule_type)

StoreAddTitleRule(title, team, rule_type) ==
    \E stored \in StoredTeamNames(kb_rules, kb_hostnames, team) :
        /\ kb_rules' = UpsertRule(kb_rules, title, stored, rule_type)
        /\ last' = [op |-> "add_title_rule", title |-> title, team |-> stored,
                    rule_type |-> rule_type]
        /\ UNCHANGED <<kb_hostnames, classifier, requests, services>>

StoreDeleteTitleRule(title) ==
    /\ kb_rules' = delete_title_rule(kb_rules, title)
    /\ last' = [op |-> "delete_title_rule"]
    /\ UNCHANGED <<kb_hostnames, classifier, requests, services>>

StoreAddHostnameRule(hostname, team) ==
    /\ kb_hostnames' = add_hostname_rule(kb_hostnames, hostname, team)
    /\ last' = [op |-> "add_hostname_rule"]
    /\ UNCHANGED <<kb_rules, classifier, requests, services>>

StoreDeleteHostnameRule(hostname) ==
    /\ kb_hostnames' = delete_hostname_rule(kb_hostnames, hostname)
    /\ last' = [op |-> "delete_hostname_rule"]
    /\ UNCHANGED <<kb_rules, classifier, requests, services>>

ReloadRules ==
    /\ classifier' = reload_rules(kb_rules, kb_hostnames)
    /\ last' = [op |-> "reload_rules"]
    /\ UNCHANGED <<kb_rules, kb_hostnames, requests, services>>

GetKnownTeams ==
    /\ last' = [op |-> "get_known_teams",
                teams |-> get_known_teams(classifier, kb_rules, kb_hostnames)]
    /\ UNCHANGED <<kb_rules, kb_hostnames, classifier, requests, services>>

StaleNext ==
    \/ \E team \in {"System Admin", "Application", "Web Team"} :
           StoreAddTitleRule("Security", team, "contains")
    \/ StoreDeleteTitleRule("Security")
    \/ \E hostname \in HostInputs : StoreAddHostnameRule(hostname, "Web Team")
    \/ \E hostname \in HostInputs : StoreDeleteHostnameRule(hostname)
    \/ ReloadRules
    \/ GetKnownTeams
    \/ \E df \in PredictFrames : Predict(df)

StaleSpec == Init /\ [][StaleNext]_vars

(***************************************************************************)
(* Two requests handled at once (main.py: app.run serves each request in a *)
(* thread of its own) on the one engine of web/routes.py.  The request     *)
(* `rule` is /kb/add_rule or the deletion of a rule: the store call, then  *)
(* classifier.reload_rules().  The request `classify` is /classify:        *)
(* classifier.reload_rules(), then classifier.predict(df).  A step is a    *)
(* statement of _load_all_rules or _build_fuzzy_index, or a row of the     *)
(* loop of predict; no lock is taken anywhere on the way.                  *)
(***************************************************************************)
ThreadsFrames ==
    {<<[Title |-> "Critical Security Patch", hostname |-> "unknown-host"],
       [Title |-> " critical  SECURITY flaws", hostname |-> "WebServer1 "]>>}

\* The request r goes on to the statement pc.
Goto(r, pc) == [requests EXCEPT ![r] = [@ EXCEPT !.pc = pc]]

\* reload_rules() of the request has assigned part of the engine's state,
\* and not yet all of it.
Rebuilding(request) == request.pc \in {"load_title_rules", "clear_index", "fill_index"}

\* self.fuzzy_candidates = {}; self.normalized_patterns = {}; the cached keys.
ClearedIndex(self) ==
    [fuzzy_candidates |-> <<>>, normalized_patterns |-> <<>>,
     _cached_app_key |-> FirstTeamKey(self.rules, TEAM_APPLICATION),
     _cached_sysadmin_key |-> FirstTeamKey(self.rules, TEAM_SYSADMIN),
     _cached_scope_key |-> KeyOr(FirstTeamKey(self.rules, TEAM_LINUX_SCOPE),
                                 FirstTeamKey(self.rules, TEAM_PLATFORM_SCOPE))]
        @@ self

\* Steps 1 to 4 of _build_fuzzy_index, on the index as it is.
FilledIndex(self) ==
    IndexNamedTeams(
        IndexNamedTeams(
            IndexOtherTeams(
                IndexTeam([fuzzy_candidates |-> self.fuzzy_candidates,
                           normalized_patterns |-> self.normalized_patterns],
                          self.rules, self._cached_app_key),
                self.rules, 1),
            self.rules, <<TEAM_LINUX_SCOPE, TEAM_PLATFORM_SCOPE>>),
        self.rules, <<TEAM_SYSADMIN, "systemadmin", "sysadmin">>)
        @@ self

BeginAddRule(title, team) ==
    /\ requests.rule.pc = "idle"
    /\ \E stored \in StoredTeamNames(kb_rules, kb_hostnames, team) :
           /\ kb_rules' = UpsertRule(kb_rules, title, stored, "contains")
           /\ last' = [op |-> "add_title_rule", title |-> title, team |-> stored,
                       rule_type |-> "contains"]
    /\ UNCHANGED services
    /\ requests' = Goto("rule", "load_hostname_map")
    /\ UNCHANGED <<kb_hostnames, classifier>>

BeginDeleteRule(title) ==
    /\ requests.rule.pc = "idle"
    /\ kb_rules' = delete_title_rule(kb_rules, title)
    /\ last' = [op |-> "delete_title_rule"]
    /\ UNCHANGED services
    /\ requests' = Goto("rule", "load_hostname_map")
    /\ UNCHANGED <<kb_hostnames, classifier>>

BeginClassify(df) ==
    /\ requests.classify.pc = "idle"
    /\ UNCHANGED services
    /\ requests' = [requests EXCEPT !.classify =
                        [pc |-> "load_hostname_map", df |-> df, rows |-> <<>>,
                         rebuilding |-> FALSE]]
    /\ UNCHANGED <<kb_rules, kb_hostnames, classifier, last>>

LoadHostnameMap(r) ==
    /\ requests[r].pc = "load_hostname_map"
    /\ classifier' = [classifier EXCEPT !.hostname_map = load_hostname_map(kb_hostnames)]
    /\ UNCHANGED services
    /\ requests' = Goto(r, "load_title_rules")
    /\ UNCHANGED <<kb_rules, kb_hostnames, last>>

LoadTitleRules(r) ==
    /\ requests[r].pc = "load_title_rules"
    /\ classifier' = [classifier EXCEPT !.rules = load_title_rules(kb_rules)]
    /\ UNCHANGED services
    /\ requests' = Goto(r, "clear_index")
    /\ UNCHANGED <<kb_rules, kb_hostnames, last>>

ClearIndex(r) ==
    /\ requests[r].pc = "clear_index"
    /\ classifier' = ClearedIndex(classifier)
    /\ UNCHANGED services
    /\ requests' = Goto(r, "fill_index")
    /\ UNCHANGED <<kb_rules, kb_hostnames, last>>

\* self.rules[self._cached_app_key] of step 1 raises KeyError: another
\* request replaced self.rules after the key was cached.
FillRaises(self) ==
    self._cached_app_key # "" /\ ~DictHas(self.rules, self._cached_app_key)

\* The exception ends the request; the index stays as far as it was built.
FillIndexRaises(r) ==
    /\ requests[r].pc = "fill_index"
    /\ FillRaises(classifier)
    /\ UNCHANGED services
    /\ requests' = [requests EXCEPT ![r] = [pc |-> "idle"]]
    /\ last' = [op |-> "reload_rules", raised |-> "KeyError"]
    /\ UNCHANGED <<kb_rules, kb_hostnames, classifier>>

FillIndex(r) ==
    /\ requests[r].pc = "fill_index"
    /\ ~FillRaises(classifier)
    /\ classifier' = FilledIndex(classifier)
    /\ UNCHANGED services
    /\ requests' = Goto(r, IF r = "classify" THEN "predict" ELSE "idle")
    /\ UNCHANGED <<kb_rules, kb_hostnames, last>>

\* A row of the loop of predict; `rebuilding` keeps whether a row was
\* classified while the other request was rebuilding the engine.
ClassifyRow ==
    /\ requests.classify.pc = "predict"
    /\ Len(requests.classify.rows) < Len(requests.classify.df)
    /\ UNCHANGED services
    /\ requests' = [requests EXCEPT !.classify =
                        [@ EXCEPT !.rows = Append(@, PredictRow(classifier,
                                       requests.classify.df[Len(requests.classify.rows) + 1])),
                                  !.rebuilding = @ \/ Rebuilding(requests.rule)]]
    /\ UNCHANGED <<kb_rules, kb_hostnames, classifier, last>>

Respond ==
    /\ requests.classify.pc = "predict"
    /\ Len(requests.classify.rows) = Len(requests.classify.df)
    /\ last' = [op |-> "predict", df |-> requests.classify.df,
                rows |-> ScoredRows(requests.classify.rows),
                rebuilding |-> requests.classify.rebuilding]
    /\ UNCHANGED services
    /\ requests' = [requests EXCEPT !.classify = [pc |-> "idle"]]
    /\ UNCHANGED <<kb_rules, kb_hostnames, classifier>>

ThreadsNext ==
    \/ \E team \in {"System Admin", "Application"} :
           BeginAddRule("Critical Security Flaws", team)
    \/ BeginDeleteRule("Critical Security Flaws")
    \/ \E df \in ThreadsFrames : BeginClassify(df)
    \/ \E r \in {"rule", "classify"} : LoadHostnameMap(r)
    \/ \E r \in {"rule", "classify"} : LoadTitleRules(r)
    \/ \E r \in {"rule", "classify"} : ClearIndex(r)
    \/ \E r \in {"rule", "classify"} : FillIndex(r)
    \/ \E r \in {"rule", "classify"} : FillIndexRaises(r)
    \/ ClassifyRow
    \/ Respond

ThreadsSpec == Init /\ [][ThreadsNext]_vars

(***************************************************************************)
(* Rule stores whose patterns and team names differ in blanks only, each   *)
(* change followed by a reload, and reload_rules called again.             *)
(***************************************************************************)
IndexNext ==
    \/ \E title \in IndexPatterns, team \in IndexTeams : AddTitleRule(title, team, "contains")
    \/ \E title \in RegexPatterns : AddTitleRule(title, "Web Team", "regex")
    \/ \E title \in IndexPatterns \cup RegexPatterns : DeleteTitleRule(title)
    \/ ReloadRules

IndexSpec == Init /\ [][IndexNext]_vars

(***************************************************************************)
(* Rule stores whose teams are named by an alias or with blanks around.    *)
(***************************************************************************)
AliasNext ==
    \/ \E title \in ContainsPatterns, team \in AliasTeams : AddTitleRule(title, team, "contains")
    \/ \E title \in ContainsPatterns : DeleteTitleRule(title)
    \/ \E hostname \in HostInputs : AddHostnameRule(hostname, "Web Team")
    \/ \E hostname \in HostInputs : DeleteHostnameRule(hostname)
    \/ \E df \in PredictFrames : Predict(df)

AliasSpec == Init /\ [][AliasNext]_vars

(***************************************************************************)
(* The rows reclassify_data returned, fed to it again: same engine, same   *)
(* preserve_manual, no store call and no reload in between.                *)
(***************************************************************************)
ReclassifyAgain ==
    /\ last.op \in {"reclassify_data", "reclassify_again"}
    /\ last' = [op |-> "reclassify_again",
                first |-> last.rows,
                preserve_manual |-> last.preserve_manual]
                   @@ reclassify_data(classifier, last.rows, last.preserve_manual)
    /\ UNCHANGED <<kb_rules, kb_hostnames, classifier, requests, services>>

AgainNext ==
    \/ \E title \in ContainsPatterns, team \in {"System Admin", "Application", "Web Team"} :
           AddTitleRule(title, team, "contains")
    \/ \E title \in ContainsPatterns : DeleteTitleRule(title)
    \/ \E hostname \in HostInputs : AddHostnameRule(hostname, "Web Team")
    \/ \E hostname \in HostInputs : DeleteHostnameRule(hostname)
    \/ \E data_list \in ReclassifyFrames \cup SparseFrames, preserve_manual \in BOOLEAN :
           ReclassifyData(data_list, preserve_manual)
    \/ ReclassifyAgain

AgainSpec == Init /\ [][AgainNext]_vars

(***************************************************************************)
(* The routes that change the knowledge base (web/routes.py): the store    *)
(* call, and classifier.reload_rules() when it reports success.  A file    *)
(* to import is unreadable, or holds one hostname and one rule, for teams  *)
(* get_standard_team finds by name.                                        *)
(***************************************************************************)
ImportFiles ==
    {[readable |-> FALSE],
     [readable |-> TRUE, hostname |-> "WebServer1", host_team |-> "System Admin",
      title |-> "Security", rule_team |-> "Application"]}

\* clear_all_rules() of the replace mode: what is left of a table.
ClearedFor(mode, table, empty) == IF mode = "replace" THEN empty ELSE table

\* import_excel_to_db, the tables being as clear_all_rules left them, and
\* the route's reload when it returns success.  pd.ExcelFile raises on an
\* unreadable file: nothing more is written and the return is (False, msg).
ImportInto(rule_rows, host_rows, mode, file) ==
    IF file.readable
    THEN \E host_team \in StoredTeamNames(rule_rows, host_rows, file.host_team),
            rule_team \in StoredTeamNames(rule_rows, host_rows, file.rule_team) :
             /\ kb_hostnames' = add_hostname_rule(host_rows, file.hostname, host_team)
             /\ kb_rules' = UpsertRule(rule_rows, file.title, rule_team, "contains")
             /\ classifier' = reload_rules(kb_rules', kb_hostnames')
             /\ last' = [op |-> "import_kb", mode |-> mode, success |-> TRUE]
    ELSE /\ kb_hostnames' = host_rows
         /\ kb_rules' = rule_rows
         /\ last' = [op |-> "import_kb", mode |-> mode, success |-> FALSE]
         /\ UNCHANGED classifier

ImportKb(mode, file) ==
    /\ ImportInto(ClearedFor(mode, kb_rules, <<>>), ClearedFor(mode, kb_hostnames, NoHostnames),
                  mode, file)
    /\ UNCHANGED <<requests, services>>

RoutesNext ==
    \/ \E title \in ContainsPatterns, team \in {"System Admin", "Application"} :
           AddTitleRule(title, team, "contains")
    \/ \E title \in ContainsPatterns : DeleteTitleRule(title)
    \/ \E hostname \in HostInputs : AddHostnameRule(hostname, "Web Team")
    \/ \E hostname \in HostInputs : DeleteHostnameRule(hostname)
    \/ \E mode \in {"merge", "replace"}, file \in ImportFiles : ImportKb(mode, file)
    \/ \E df \in PredictFrames : Predict(df)

RoutesSpec == Init /\ [][RoutesNext]_vars

(***************************************************************************)
(* The cleanup scheduler (core/scheduler.py).  `scheduler` holds the       *)
(* fields of the singleton (_thread is the number of the Thread object, 0  *)
(* for None), `loops` where each _scheduler_loop thread ever started is,   *)
(* and `callers` where each thread calling start, stop or restart is.      *)
(* Nothing in the class is locked but the construction of the singleton,   *)
(* so a step is one statement of a method.                                 *)
(***************************************************************************)
MaxLoops == 3

\* What no method of the scheduler touches.
outside_scheduler ==
    <<engine, _login_attempts, _lockouts, clock, logins, users, session, response>>

\* threading.Thread.is_alive() of loop t
Alive(t) == loops[t] # "dead"

At(c, pc) == [callers EXCEPT ![c] = [@ EXCEPT !.pc = pc]]

\* start(): `if self._running: return`, then the settings (enabled or not).
\* Also the start() that ends restart().
StartCheck(c, enabled) ==
    /\ callers[c].pc \in {"idle", "restart_start"}
    /\ callers' = IF scheduler._running \/ ~enabled
                  THEN [callers EXCEPT ![c] = [pc |-> "idle", restart |-> FALSE]]
                  ELSE [callers EXCEPT ![c] = [pc |-> "start_clear", restart |-> FALSE]]
    /\ UNCHANGED <<scheduler, loops, outside_scheduler>>

\* self._load_last_cleanup(); self._stop_event.clear()
StartClear(c) ==
    /\ callers[c].pc = "start_clear"
    /\ scheduler' = [scheduler EXCEPT !._stop_event = FALSE]
    /\ callers' = At(c, "start_thread")
    /\ UNCHANGED <<loops, outside_scheduler>>

\* self._thread = threading.Thread(target=self._scheduler_loop); self._thread.start()
StartThread(c) ==
    /\ callers[c].pc = "start_thread"
    /\ Len(loops) < MaxLoops
    /\ loops' = Append(loops, "check")
    /\ scheduler' = [scheduler EXCEPT !._thread = Len(loops) + 1]
    /\ callers' = At(c, "start_running")
    /\ UNCHANGED outside_scheduler

\* self._running = True
StartRunning(c) ==
    /\ callers[c].pc = "start_running"
    /\ scheduler' = [scheduler EXCEPT !._running = TRUE]
    /\ callers' = At(c, "idle")
    /\ UNCHANGED <<loops, outside_scheduler>>

\* stop(): `if not self._running: return`, else self._stop_event.set().
\* restart() begins with the same call.
StopCheck(c, restart) ==
    /\ callers[c].pc = "idle"
    /\ IF scheduler._running
       THEN /\ scheduler' = [scheduler EXCEPT !._stop_event = TRUE]
            /\ callers' = [callers EXCEPT ![c] = [pc |-> "stop_join", restart |-> restart]]
       ELSE /\ callers' = [callers EXCEPT ![c] =
                              [pc |-> IF restart THEN "restart_start" ELSE "idle",
                               restart |-> FALSE]]
            /\ UNCHANGED scheduler
    /\ UNCHANGED <<loops, outside_scheduler>>

\* self._thread.join(timeout=5): returns when the thread has ended, or after
\* five seconds, which a loop in the middle of a cleanup can outlast.
StopJoin(c) ==
    /\ callers[c].pc = "stop_join"
    /\ scheduler._thread # 0 => loops[scheduler._thread] \in {"dead", "cleanup"}
    /\ callers' = At(c, "stop_running")
    /\ UNCHANGED <<scheduler, loops, outside_scheduler>>

\* self._running = False; in restart(), time.sleep(0.5) and start() follow.
StopRunning(c) ==
    /\ callers[c].pc = "stop_running"
    /\ scheduler' = [scheduler EXCEPT !._running = FALSE]
    /\ callers' = [callers EXCEPT ![c] =
                      [pc |-> IF callers[c].restart THEN "restart_start" ELSE "idle",
                       restart |-> FALSE]]
    /\ UNCHANGED <<loops, outside_scheduler>>

\* _scheduler_loop: `while not self._stop_event.is_set()`, and whether a
\* cleanup is due (_should_run_cleanup).
LoopCheck(t, due) ==
    /\ t \in DOMAIN loops
    /\ loops[t] = "check"
    /\ loops' = [loops EXCEPT ![t] = IF scheduler._stop_event THEN "dead"
                                     ELSE IF due THEN "cleanup" ELSE "wait"]
    /\ UNCHANGED <<scheduler, callers, outside_scheduler>>

\* _run_cleanup has returned.
LoopCleanupDone(t) ==
    /\ t \in DOMAIN loops
    /\ loops[t] = "cleanup"
    /\ loops' = [loops EXCEPT ![t] = "wait"]
    /\ UNCHANGED <<scheduler, callers, outside_scheduler>>

\* self._stop_event.wait(timeout=check_interval) has returned: the event is
\* set, or the hour is over.
LoopWake(t) ==
    /\ t \in DOMAIN loops
    /\ loops[t] = "wait"
    /\ loops' = [loops EXCEPT ![t] = "check"]
    /\ UNCHANGED <<scheduler, callers, outside_scheduler>>

SchedulerNext ==
    \/ \E c \in Callers, enabled \in BOOLEAN : StartCheck(c, enabled)
    \/ \E c \in Callers : StartClear(c)
    \/ \E c \in Callers : StartThread(c)
    \/ \E c \in Callers : StartRunning(c)
    \/ \E c \in Callers, restart \in BOOLEAN : StopCheck(c, restart)
    \/ \E c \in Callers : StopJoin(c)
    \/ \E c \in Callers : StopRunning(c)
    \/ \E t \in 1..MaxLoops, due \in BOOLEAN : LoopCheck(t, due)
    \/ \E t \in 1..MaxLoops : LoopCleanupDone(t)
    \/ \E t \in 1..MaxLoops : LoopWake(t)

SchedulerSpec == Init /\ [][SchedulerNext]_vars

(***************************************************************************)
(* The login rate limiter (auth/rate_limit.py).  _login_attempts and       *)
(* _lockouts are the module's dicts, `clock` is time.time() in seconds,    *)
(* and `logins` where each login request is: before is_rate_limited, or    *)
(* let through and not yet recorded.  The body of is_rate_limited and that *)
(* of record_login_attempt each run under _rate_limit_lock, so each is one *)
(* step; nothing holds the lock from the one call to the other.            *)
(***************************************************************************)
MAX_LOGIN_ATTEMPTS == 5

WINDOW_SECONDS == 300

LOCKOUT_SECONDS == 900

TickSeconds == 150

MaxTime == 1200

\* The entries a client's list may hold in the model.
MaxEntries == 6

ClientKeys == {"10.0.0.1"}

outside_limiter == <<engine, scheduler, loops, callers, users, session, response>>

\* [(ts, success) for ts, success in entries if ts > cutoff]
RecentEntries(entries, cutoff) == SelectSeq(entries, LAMBDA e : e[1] > cutoff)

\* _cleanup_old_entries on _login_attempts: old entries go, then empty lists.
CleanAttempts(attempts, current_time) ==
    Tabulated([k \in {j \in DOMAIN attempts :
                         RecentEntries(attempts[j], current_time - WINDOW_SECONDS) # <<>>} |->
                  RecentEntries(attempts[k], current_time - WINDOW_SECONDS)])

\* _cleanup_old_entries on _lockouts: expired lockouts go.
CleanLockouts(lockouts, current_time) ==
    Tabulated([k \in {j \in DOMAIN lockouts : ~(lockouts[j] < current_time)} |-> lockouts[k]])

\* sum(1 for ts, success in attempts if not success)
FailedCount(entries) == Len(SelectSeq(entries, LAMBDA e : ~e[2]))

\* _login_attempts.get(client_key, [])
EntriesOf(attempts, client_key) ==
    IF client_key \in DOMAIN attempts THEN attempts[client_key] ELSE <<>>

\* The first return of is_rate_limited: the client is in a lockout.
InLockout(lockouts, client_key, current_time) ==
    client_key \in DOMAIN lockouts /\ current_time < lockouts[client_key]

\* is_rate_limited after _cleanup_old_entries: the lockout kept or applied,
\* and the request let through or not.
CheckLimit(r, client_key, attempts, lockouts) ==
    /\ _login_attempts' = attempts
    /\ IF InLockout(lockouts, client_key, clock)
       THEN /\ _lockouts' = lockouts
            /\ UNCHANGED logins
       ELSE IF FailedCount(EntriesOf(attempts, client_key)) >= MAX_LOGIN_ATTEMPTS
       THEN /\ _lockouts' = [k \in DOMAIN lockouts \cup {client_key} |->
                                IF k = client_key THEN clock + LOCKOUT_SECONDS
                                ELSE lockouts[k]]
            /\ UNCHANGED logins
       ELSE /\ _lockouts' = lockouts
            /\ logins' = [logins EXCEPT ![r] = [pc |-> "admitted", key |-> client_key]]

IsRateLimited(r, client_key) ==
    /\ logins[r].pc = "idle"
    /\ CheckLimit(r, client_key, CleanAttempts(_login_attempts, clock),
                  CleanLockouts(_lockouts, clock))
    /\ UNCHANGED <<clock, outside_limiter>>

\* record_login_attempt(success) of a request is_rate_limited let through.
RecordLoginAttempt(r, success) ==
    /\ logins[r].pc = "admitted"
    /\ Len(EntriesOf(_login_attempts, logins[r].key)) < MaxEntries
    /\ _login_attempts' =
           [k \in DOMAIN _login_attempts \cup {logins[r].key} |->
               IF k = logins[r].key
               THEN Append(EntriesOf(_login_attempts, k), <<clock, success>>)
               ELSE _login_attempts[k]]
    /\ _lockouts' = IF success
                    THEN [k \in DOMAIN _lockouts \ {logins[r].key} |-> _lockouts[k]]
                    ELSE _lockouts
    /\ logins' = [logins EXCEPT ![r] = [pc |-> "idle"]]
    /\ UNCHANGED <<clock, outside_limiter>>

\* Time passes.
Tick ==
    /\ clock < MaxTime
    /\ clock' = clock + TickSeconds
    /\ UNCHANGED <<_login_attempts, _lockouts, logins, outside_limiter>>

LimiterNext ==
    \/ \E r \in LoginRequests, client_key \in ClientKeys : IsRateLimited(r, client_key)
    \/ \E r \in LoginRequests, success \in BOOLEAN : RecordLoginAttempt(r, success)
    \/ Tick

LimiterSpec == Init /\ [][LimiterNext]_vars

(***************************************************************************)
(* Routes behind require_permission (auth/permissions.py).  `users` is the *)
(* users table (username to role), `session` the username the browser's    *)
(* session holds ("" for none), `response` what the last request got.  A   *)
(* query of the user database may fail: the request then sees what the     *)
(* code returns in its except clauses.                                     *)
(***************************************************************************)
ROLE_VIEWER == "viewer"

ROLE_SECURITY_ADMIN == "security_admin"

ROLE_ADMINISTRATOR == "administrator"

ViewerPermissions == {"upload_files", "view_results", "view_kb", "export_files"}

SecurityAdminPermissions ==
    ViewerPermissions \cup
    {"modify_assignments", "add_kb_rules", "edit_kb_rules", "delete_kb_rules", "save_to_kb",
     "import_export_kb", "view_reports"}

AdministratorPermissions ==
    (SecurityAdminPermissions \cup
     {"manage_users", "manage_settings", "manage_ldap", "manage_database", "delete_reports",
      "view_audit_logs", "export_audit_logs", "manage_audit_logs"})

\* ROLE_PERMISSIONS.get(role, [])
ROLE_PERMISSIONS(role) ==
    IF role = ROLE_VIEWER THEN ViewerPermissions
    ELSE IF role = ROLE_SECURITY_ADMIN THEN SecurityAdminPermissions
    ELSE IF role = ROLE_ADMINISTRATOR THEN AdministratorPermissions
    ELSE {}

Usernames == {"admin", "alice"}

\* The roles a user is created with; the last is none of ROLE_PERMISSIONS.
Roles == {ROLE_VIEWER, ROLE_SECURITY_ADMIN, ROLE_ADMINISTRATOR, "auditor"}

RequestedPermissions == {"view_kb", "add_kb_rules", "manage_users"}

outside_auth ==
    <<engine, scheduler, loops, callers, _login_attempts, _lockouts, clock, logins>>

\* UserDB.initialize(): _ensure_default_admin on the table.
initialize(table) ==
    IF DOMAIN table = {} THEN ("admin" :> ROLE_ADMINISTRATOR) ELSE table

\* The table after is_auth_enabled(): a query that fails changes nothing.
TableAfterLookup(table, fails) == IF fails THEN table ELSE initialize(table)

\* is_auth_enabled(): len(users) > 0, and False when the query fails.
is_auth_enabled(table, fails) == ~fails /\ DOMAIN initialize(table) # {}

AnonymousUser == [is_authenticated |-> FALSE]

\* load_user(user_id) behind current_user: None when is_auth_enabled() is
\* false or the user is not in the table.
load_user(user_id, table, fails) ==
    IF is_auth_enabled(table, fails) /\ user_id \in DOMAIN initialize(table)
    THEN [is_authenticated |-> TRUE, role |-> initialize(table)[user_id]]
    ELSE AnonymousUser

get_user_role(current_user) ==
    IF current_user.is_authenticated THEN Some(current_user.role) ELSE None

has_permission(current_user, permission) ==
    /\ get_user_role(current_user) # None
    /\ permission \in ROLE_PERMISSIONS(get_user_role(current_user)[1])

\* decorated_function of require_permission(permission): what the request gets.
Outcome(auth_enabled, current_user, permission) ==
    IF ~auth_enabled THEN "handler"
    ELSE IF ~current_user.is_authenticated THEN "401"
    ELSE IF ~has_permission(current_user, permission) THEN "403"
    ELSE "handler"

\* UserDB.create_user: the username is unique.
CreateUser(username, role) ==
    /\ username \notin DOMAIN users
    /\ users' = (username :> role) @@ users
    /\ UNCHANGED <<session, response, outside_auth>>

\* UserDB.delete_user: the last administrator stays.
DeleteUser(username) ==
    /\ username \in DOMAIN users
    /\ users[username] = ROLE_ADMINISTRATOR =>
           \E other \in DOMAIN users \ {username} : users[other] = ROLE_ADMINISTRATOR
    /\ users' = [u \in DOMAIN users \ {username} |-> users[u]]
    /\ UNCHANGED <<session, response, outside_auth>>

\* login(): login_user(user) for a user of the table.
LoginUser(username) ==
    /\ username \in DOMAIN users
    /\ session' = username
    /\ UNCHANGED <<users, response, outside_auth>>

\* logout(): logout_user()
LogoutUser ==
    /\ session # ""
    /\ session' = ""
    /\ UNCHANGED <<users, response, outside_auth>>

\* A request to a route wrapped by require_permission(permission): the
\* decorator's is_auth_enabled(), then current_user, loaded by load_user.
\* `existed` and `user` are the table and the session's user as they are,
\* whatever the queries of this request returned.
RequirePermission(permission, lookup_fails, loader_fails) ==
    /\ response' =
           [permission |-> permission,
            existed |-> DOMAIN users # {},
            user |-> load_user(session, users, FALSE),
            outcome |-> Outcome(is_auth_enabled(users, lookup_fails),
                                load_user(session, TableAfterLookup(users, lookup_fails),
                                          loader_fails),
                                permission)]
    /\ users' = TableAfterLookup(TableAfterLookup(users, lookup_fails), loader_fails)
    /\ UNCHANGED <<session, outside_auth>>

AuthNext ==
    \/ \E username \in Usernames, role \in Roles : CreateUser(username, role)
    \/ \E username \in Usernames : DeleteUser(username)
    \/ \E username \in Usernames : LoginUser(username)
    \/ LogoutUser
    \/ \E permission \in RequestedPermissions, lookup_fails \in BOOLEAN, loader_fails \in BOOLEAN :
           RequirePermission(permission, lookup_fails, loader_fails)

AuthSpec == Init /\ [][AuthNext]_vars

(***************************************************************************)
(* predict over tables that share a row.                                   *)
(***************************************************************************)
BatchFrames ==
    {<<[Title |-> "Securitas", hostname |-> "WebServer1 "]>>,
     <<[Title |-> "Securitas", hostname |-> "WebServer1 "],
       [Title |-> "Critical Security Patch", hostname |-> "unknown-host"]>>,
     <<[Title |-> "Critical Security Patch", hostname |-> "unknown-host"],
       [Title |-> " critical  SECURITY flaws", hostname |-> "WebServer1 "],
       [Title |-> "Securitas", hostname |-> "WebServer1 "]>>}

BatchNext ==
    \/ \E team \in TeamInputs : AddTitleRule("Critical Security Flaws", team, "contains")
    \/ DeleteTitleRule("Critical Security Flaws")
    \/ \E hostname \in HostInputs, team \in OwnerInputs : AddHostnameRule(hostname, team)
    \/ \E hostname \in HostInputs : DeleteHostnameRule(hostname)
    \/ \E df \in BatchFrames : Predict(df)

BatchSpec == Init /\ [][BatchNext]_vars

(***************************************************************************)
(* The vocabulary of the properties.                                       *)
(***************************************************************************)
\* The classification predict gives a row with this title and hostname.
Classified(title, hostname) ==
    _classify_single_row(classifier, StrStrip(title), StrStrip(hostname))

\* What the rule stage returns for a row with this title.
Matched(title) ==
    _find_rule_match(classifier, StrStrip(title), _normalize_str(StrStrip(title)))

\* What the fuzzy stage returns for a row with this title and hostname.
FuzzyStage(title, hostname) ==
    _try_fuzzy_match(classifier, StrStrip(title), StrLower(StrStrip(hostname)))

\* The title matches the rule: its normalized contains pattern is, or is part
\* of, the normalized title, or its regex is valid and found in the title.
RuleMatchesTitle(rule, title) ==
    \/ rule.contains # ""
         /\ StrIn(_normalize_str(rule.contains), _normalize_str(title))
    \/ rule.regex # "" /\ ~re_error(rule.regex) /\ re_search(rule.regex, StrStrip(title))

\* The teams of the loaded rule set that have a rule the title matches.
MatchingTeams(title) ==
    {classifier.rules[j].k :
        j \in {i \in 1..Len(classifier.rules) :
                  \E n \in 1..Len(classifier.rules[i].v) :
                      RuleMatchesTitle(classifier.rules[i].v[n], title)}}

\* The priority tier of a team: 1 system admin, 2 out of scope, 3 every
\* other team, 4 application.
Tier(team) ==
    IF StrLower(StrStrip(team)) = "system admin" THEN 1
    ELSE IF StrLower(StrStrip(team)) \in {"out of linux scope", "out of platform scope"}
         THEN 2
    ELSE IF StrLower(StrStrip(team)) = "application" THEN 4
    ELSE 3

\* The display name of a distinguished team name, whatever its letter case.
DisplayName(team) ==
    CHOOSE d \in {"System Admin", "Application", "Out of Linux Scope",
                  "Out of Platform Scope"} : StrLower(d) = StrLower(StrStrip(team))

\* A team name in its canonical casing: the display name of a distinguished
\* team, any other name as it is.
CanonicalCasing(team) == IF Tier(team) # 3 THEN DisplayName(team) ELSE team

\* The owner the hostname map gives the row's hostname, "" for none.
OwnerOf(hostname) ==
    IF StrLower(StrStrip(hostname)) \in DOMAIN classifier.hostname_map
    THEN classifier.hostname_map[StrLower(StrStrip(hostname))]
    ELSE ""

KnownOwner(hostname) == StrLower(OwnerOf(hostname)) \notin {"", "nan", "none"}

\* The rows of the last reclassify_data call that were manual overrides.
ManualRows ==
    {i \in 1..Len(last.data_list) : last.data_list[i].Method = "Manual Override"}

\* The rule the call before the last reclassify_data call added.
AddedRule == RuleObj(last.added[1].title, last.added[1].rule_type)

\* The rows of the last reclassify_data call that were Unclassified and whose
\* title matches the rule added before the call.
UnclassifiedMatching ==
    {i \in 1..Len(last.data_list) :
        /\ last.data_list[i].Assigned_Team = "Unclassified"
        /\ RuleMatchesTitle(AddedRule, last.data_list[i].Title)}

(***************************************************************************)
(* C1: reclassify_data(rows, preserve_manual=True) returns, for every row  *)
(* whose prior Method is 'Manual Override', a row at the same index with   *)
(* the prior Assigned_Team and Method 'Manual Override', whatever rules    *)
(* were loaded before the call.                                            *)
(***************************************************************************)
C1_ManualOverrideKept ==
    (last.op = "reclassify_data" /\ last.preserve_manual) =>
        /\ Len(last.rows) = Len(last.data_list)
        /\ \A i \in ManualRows :
               /\ last.rows[i].Title = last.data_list[i].Title
               /\ last.rows[i].hostname = last.data_list[i].hostname
               /\ last.rows[i].Assigned_Team = last.data_list[i].Assigned_Team
               /\ last.rows[i].Method = "Manual Override"

\* A rule was added and loaded, a rule now classifies the title of a manual
\* override row to another team, and the row kept its team.
C1_Witness ==
    /\ last.op = "reclassify_data"
    /\ last.preserve_manual
    /\ last.added # None
    /\ \E i \in ManualRows :
           /\ Classified(last.data_list[i].Title, last.data_list[i].hostname).Method = "Rule"
           /\ Classified(last.data_list[i].Title, last.data_list[i].hostname).Assigned_Team
                  # last.data_list[i].Assigned_Team
           /\ last.rows[i].Assigned_Team = last.data_list[i].Assigned_Team

(***************************************************************************)
(* C2: rules come strictly before fuzzy matching: if the title matches a   *)
(* rule of any team of the loaded rule set the Method is 'Rule'; 'Fuzzy'   *)
(* and 'None' are produced only when no rule of any team matches.          *)
(***************************************************************************)
C2_RulesBeforeFuzzy ==
    \A title \in Titles, hostname \in RowHosts :
        /\ MatchingTeams(title) # {} => Classified(title, hostname).Method = "Rule"
        /\ Classified(title, hostname).Method \in {"Fuzzy", "None"}
               => MatchingTeams(title) = {}

(***************************************************************************)
(* C3: when rules of several teams match the same title, the rule matcher  *)
(* returns the match of a team of the highest tier among the matching      *)
(* teams: system admin, then out of scope (Linux and Platform one tier),   *)
(* then every other team, then Application.                                *)
(***************************************************************************)
C3_HighestTierWins ==
    \A title \in Titles :
        Cardinality(MatchingTeams(title)) >= 2 =>
            /\ Matched(title).team \in MatchingTeams(title)
            /\ \A team \in MatchingTeams(title) : Tier(Matched(title).team) <= Tier(team)

(***************************************************************************)
(* C4: for a rule match on the Application team, a hostname (trimmed,      *)
(* lowercased) that the hostname map gives an owner other than '', 'nan',  *)
(* 'none' (in any letter case) makes Assigned_Team that owner, in its      *)
(* canonical casing, with Needs_Review False; otherwise Assigned_Team is   *)
(* 'Application' with Needs_Review True.                                   *)
(***************************************************************************)
C4_ApplicationByHostname ==
    \A title \in Titles, hostname \in RowHosts :
        LET result == Classified(title, hostname)
        IN  StrLower(StrStrip(Matched(title).team)) = "application" =>
                /\ result.Method = "Rule"
                /\ KnownOwner(hostname) =>
                       /\ result.Assigned_Team = CanonicalCasing(OwnerOf(hostname))
                       /\ result.Needs_Review = FALSE
                /\ ~KnownOwner(hostname) =>
                       /\ result.Assigned_Team = "Application"
                       /\ result.Needs_Review = TRUE

\* predict classified a row by an Application rule and gave it to the owner of
\* its hostname, 'system admin' in the map, as 'System Admin'.
C4_Witness ==
    /\ last.op = "predict"
    /\ \E i \in 1..Len(last.rows) :
           /\ StrLower(StrStrip(Matched(last.rows[i].Title).team)) = "application"
           /\ OwnerOf(last.rows[i].hostname) = "system admin"
           /\ last.rows[i].Method = "Rule"
           /\ last.rows[i].Assigned_Team = "System Admin"
           /\ last.rows[i].Needs_Review = FALSE

(***************************************************************************)
(* C5: the fuzzy threshold is a hard cut at 85: a result with Method       *)
(* 'Fuzzy' has a score of at least 85 between the title and its            *)
(* Matched_Rule, and a Fuzzy_Score of at least 85; a pattern scoring       *)
(* exactly 85 is eligible; when no rule matches and every indexed pattern  *)
(* scores below 85 the row is Unclassified with Method 'None'.             *)
(***************************************************************************)
C5_ThresholdIsHardCut ==
    \A title \in Titles, hostname \in RowHosts :
        LET result == Classified(title, hostname)
            reaching == {i \in 1..Len(classifier.fuzzy_candidates) :
                            ScoreAtLeast(Ratio(StrStrip(title),
                                               classifier.fuzzy_candidates[i].k), 85)}
        IN  /\ result.Method = "Fuzzy" =>
                   /\ ScoreAtLeast(Ratio(StrStrip(title), result.Matched_Rule[1]), 85)
                   /\ result.Fuzzy_Score[1] >= 850
            /\ (~Truthy(Matched(title).team) /\ reaching # {}) => result.Method = "Fuzzy"
            /\ (~Truthy(Matched(title).team) /\ reaching = {}) =>
                   /\ result.Method = "None"
                   /\ result.Assigned_Team = "Unclassified"

\* predict gave a row Method 'Fuzzy' on a score of exactly 85.
C5_Witness ==
    /\ last.op = "predict"
    /\ \E i \in 1..Len(last.rows) :
           /\ last.rows[i].Method = "Fuzzy"
           /\ last.rows[i].Fuzzy_Score = Some(850)
           /\ Ratio(StrStrip(last.rows[i].Title), last.rows[i].Matched_Rule[1])
                  = [n |-> 3400, d |-> 40]

(***************************************************************************)
(* C6: every result of the fuzzy stage has Method 'Fuzzy', Needs_Review    *)
(* True, a Fuzzy_Score, and a Matched_Rule that is a key of the fuzzy      *)
(* candidate index, whichever team owns the pattern, and also when the     *)
(* pattern is Application's and the hostname has a known owner.            *)
(***************************************************************************)
C6_FuzzyResultShape ==
    \A title \in Titles, hostname \in RowHosts :
        LET fuzzy_result == FuzzyStage(title, hostname)
            result == Classified(title, hostname)
        IN  /\ fuzzy_result # None =>
                   /\ fuzzy_result[1].Method = "Fuzzy"
                   /\ fuzzy_result[1].Needs_Review = TRUE
                   /\ fuzzy_result[1].Fuzzy_Score # None
                   /\ fuzzy_result[1].Matched_Rule # None
                   /\ DictHas(classifier.fuzzy_candidates, fuzzy_result[1].Matched_Rule[1])
            /\ result.Method = "Fuzzy" => result = fuzzy_result[1]

\* predict matched a row to a pattern of Application by fuzzy matching and
\* gave it to the known owner of its hostname, still to be reviewed.
C6_Witness ==
    /\ last.op = "predict"
    /\ \E i \in 1..Len(last.rows) :
           /\ last.rows[i].Method = "Fuzzy"
           /\ StrLower(DictGet(classifier.fuzzy_candidates, last.rows[i].Matched_Rule[1]))
                  = "application"
           /\ KnownOwner(last.rows[i].hostname)
           /\ last.rows[i].Assigned_Team = OwnerOf(last.rows[i].hostname)
           /\ last.rows[i].Needs_Review = TRUE

(***************************************************************************)
(* C7: a result with Method 'Rule' whose matching rule belongs to the      *)
(* system admin team or to an out-of-scope team has Needs_Review False and *)
(* the canonical display name of that team as Assigned_Team, for any       *)
(* hostname and whatever the letter case of the team name in the store.    *)
(***************************************************************************)
C7_PriorityTeamsByName ==
    \A title \in Titles, hostname \in RowHosts :
        LET result == Classified(title, hostname)
        IN  (Truthy(Matched(title).team) /\ Tier(Matched(title).team) \in {1, 2}) =>
                /\ result.Method = "Rule"
                /\ result.Needs_Review = FALSE
                /\ result.Assigned_Team = DisplayName(Matched(title).team)

\* predict classified a row by a rule of the team stored as 'system admin' and
\* assigned it to 'System Admin'.
C7_Witness ==
    /\ last.op = "predict"
    /\ \E i \in 1..Len(last.rows) :
           /\ Matched(last.rows[i].Title).team = "system admin"
           /\ last.rows[i].Method = "Rule"
           /\ last.rows[i].Assigned_Team = "System Admin"
           /\ last.rows[i].Needs_Review = FALSE

(***************************************************************************)
(* C8: after a title rule for team T is added and loaded, reclassify_data  *)
(* returns every row that was 'Unclassified' and whose title matches the   *)
(* new rule with Assigned_Team T, and team_changes is at least the number  *)
(* of such rows.                                                           *)
(***************************************************************************)
C8_NewRuleTakesRows ==
    (last.op = "reclassify_data" /\ last.added # None) =>
        /\ \A i \in UnclassifiedMatching :
               last.rows[i].Assigned_Team = last.added[1].team
        /\ last.team_changes >= Cardinality(UnclassifiedMatching)

(***************************************************************************)
(* C8, amended: if T is the team the engine resolved as system admin, the  *)
(* rows that were 'Unclassified', match the new rule and are not kept as   *)
(* manual overrides are returned with Assigned_Team 'System Admin', and    *)
(* team_changes is at least their number.                                  *)
(***************************************************************************)
C8_NewSysadminRuleTakesRows ==
    (/\ last.op = "reclassify_data"
     /\ last.added # None
     /\ last.added[1].team = classifier._cached_sysadmin_key) =>
        /\ \A i \in UnclassifiedMatching :
               ~KeepsManual(last.data_list, last.preserve_manual, i) =>
                   last.rows[i].Assigned_Team = "System Admin"
        /\ last.team_changes
               >= Cardinality({i \in UnclassifiedMatching :
                                  ~KeepsManual(last.data_list, last.preserve_manual, i)})

\* A rule of the system admin team was added and loaded, and reclassify_data
\* moved an Unclassified row of a matching title to 'System Admin'.
C8_Witness ==
    /\ last.op = "reclassify_data"
    /\ last.added # None
    /\ last.added[1].team = classifier._cached_sysadmin_key
    /\ \E i \in UnclassifiedMatching :
           /\ ~KeepsManual(last.data_list, last.preserve_manual, i)
           /\ last.rows[i].Assigned_Team = "System Admin"
    /\ last.team_changes >= 1

(***************************************************************************)
(* C9: for a row kept as a manual override, reclassify_data discards the   *)
(* fresh classification entirely: every classification column the row     *)
(* came with (Assigned_Team, Reason, Needs_Review, Method, Fuzzy_Score,    *)
(* Matched_Rule) has its prior value.                                      *)
(***************************************************************************)
C9_FreshClassificationDiscarded ==
    (last.op = "reclassify_data" /\ last.preserve_manual) =>
        \A i \in ManualRows :
            \A col \in ClassificationColumns \cap DOMAIN last.data_list[i] :
                last.rows[i][col] = last.data_list[i][col]

(***************************************************************************)
(* C10: for every title and every contains pattern of the loaded rule set, *)
(* of any team, that normalize to the same string, the title is classified *)
(* with Method 'Rule' and a Reason containing 'exact match' or 'contains'. *)
(***************************************************************************)
C10_ExactMatchIsRule ==
    \A title \in Titles, hostname \in RowHosts :
        (\E i \in 1..Len(classifier.rules) :
             \E n \in 1..Len(classifier.rules[i].v) :
                 /\ classifier.rules[i].v[n].contains # ""
                 /\ _normalize_str(classifier.rules[i].v[n].contains)
                        = _normalize_str(title))
            => /\ Classified(title, hostname).Method = "Rule"
               /\ \/ InRec("exact match", Classified(title, hostname).Reason)
                  \/ InRec("contains", Classified(title, hostname).Reason)

(***************************************************************************)
(* The fuzzy candidates of the loaded engine, by index, as the properties  *)
(* of the fuzzy winner speak of them.                                      *)
(***************************************************************************)
\* The score of candidate i against the title.
CandidateScore(title, i) == Ratio(StrStrip(title), classifier.fuzzy_candidates[i].k)

\* The candidates that score at least 85 against the title.
Reaching(title) ==
    {i \in 1..Len(classifier.fuzzy_candidates) : ScoreAtLeast(CandidateScore(title, i), 85)}

\* The candidates among the ten nearest to the title: fewer than ten others
\* score higher, or as high and are indexed earlier.
TenNearest(title) ==
    {i \in 1..Len(classifier.fuzzy_candidates) :
        Cardinality({j \in 1..Len(classifier.fuzzy_candidates) :
            \/ ~ScoreGE(CandidateScore(title, i), CandidateScore(title, j))
            \/ /\ ScoreGE(CandidateScore(title, i), CandidateScore(title, j))
               /\ ScoreGE(CandidateScore(title, j), CandidateScore(title, i))
               /\ j < i}) < 10}

\* Of the candidates `among`, those of the highest tier present that score
\* highest in that tier.
PriorityWinners(title, among) ==
    {i \in among :
        \A j \in among :
            \/ Tier(classifier.fuzzy_candidates[i].v) < Tier(classifier.fuzzy_candidates[j].v)
            \/ /\ Tier(classifier.fuzzy_candidates[i].v) = Tier(classifier.fuzzy_candidates[j].v)
               /\ ScoreGE(CandidateScore(title, i), CandidateScore(title, j))}

\* The row is given to one of the candidates `winners` by the fuzzy stage.
FuzzyWinnerIn(title, hostname, winners) ==
    /\ Classified(title, hostname).Method = "Fuzzy"
    /\ Classified(title, hostname).Matched_Rule
           \in {Some(classifier.fuzzy_candidates[i].k) : i \in winners}

(***************************************************************************)
(* C11: when no rule matches, the fuzzy winner is the highest-scoring      *)
(* pattern of the highest-priority team category among ALL indexed         *)
(* patterns that score at least 85 (system admin, then out of scope, then  *)
(* other teams, then Application), however many patterns of lower priority *)
(* score as high or higher.                                                *)
(***************************************************************************)
C11_FuzzyPriorityOverScore ==
    \A title \in {FuzzyTitle}, hostname \in {"unknown-host"} :
        (~Truthy(Matched(title).team) /\ Reaching(title) # {}) =>
            FuzzyWinnerIn(title, hostname, PriorityWinners(title, Reaching(title)))

(***************************************************************************)
(* C11, amended: when no rule matches, the fuzzy winner is the             *)
(* highest-scoring pattern of the highest-priority team category among the *)
(* indexed patterns that are among the ten nearest to the title and score  *)
(* at least 85.                                                            *)
(***************************************************************************)
C11_FuzzyPriorityAmongTenNearest ==
    \A title \in {FuzzyTitle}, hostname \in {"unknown-host"} :
        (~Truthy(Matched(title).team) /\ Reaching(title) \cap TenNearest(title) # {}) =>
            FuzzyWinnerIn(title, hostname,
                          PriorityWinners(title, Reaching(title) \cap TenNearest(title)))

\* predict gave a row to a system admin pattern although an Application
\* pattern among the ten nearest scores higher.
C11_Witness ==
    /\ last.op = "predict"
    /\ \E r \in 1..Len(last.rows) :
           /\ last.rows[r].Method = "Fuzzy"
           /\ last.rows[r].Assigned_Team = "System Admin"
           /\ \E i \in Reaching(last.rows[r].Title) \cap TenNearest(last.rows[r].Title) :
                  /\ Tier(classifier.fuzzy_candidates[i].v) = 4
                  /\ last.rows[r].Fuzzy_Score[1]
                         < RoundTenths(CandidateScore(last.rows[r].Title, i))

(***************************************************************************)
(* The rows of the last reclassify_data call, as the properties of its     *)
(* counters speak of them.                                                 *)
(***************************************************************************)
\* The value row i came with in the column, '' when it came without it.
Prior(i, col) == IF col \in DOMAIN last.data_list[i] THEN last.data_list[i][col] ELSE ""

\* The classification of row i under the loaded rules.
Fresh(i) == Classified(last.data_list[i].Title, last.data_list[i].hostname)

\* The rows the call preserved as manual overrides.
Preserved ==
    {i \in 1..Len(last.data_list) :
        last.preserve_manual /\ Prior(i, "Method") = "Manual Override"}

(***************************************************************************)
(* C12: the counters of reclassify_data are exact: team_changes is the     *)
(* number of rows not preserved whose fresh Assigned_Team differs from the *)
(* prior one, method_changes the number of rows not preserved whose prior  *)
(* Method is 'Fuzzy' and whose fresh Method is 'Rule'; preserved rows and  *)
(* other method transitions count for nothing.                             *)
(***************************************************************************)
C12_CountersAreExact ==
    last.op = "reclassify_data" =>
        /\ last.team_changes
               = Cardinality({i \in 1..Len(last.data_list) \ Preserved :
                                 Fresh(i).Assigned_Team # Prior(i, "Assigned_Team")})
        /\ last.method_changes
               = Cardinality({i \in 1..Len(last.data_list) \ Preserved :
                                 Prior(i, "Method") = "Fuzzy" /\ Fresh(i).Method = "Rule"})

\* One call moved a row from None to Rule and to a new team and kept a manual
\* override whose fresh team differs: one team change, no method change.
C12_Witness ==
    /\ last.op = "reclassify_data"
    /\ last.method_changes = 0
    /\ last.team_changes = 1
    /\ \E i \in 1..Len(last.data_list) \ Preserved :
           /\ Prior(i, "Method") = "None"
           /\ Fresh(i).Method = "Rule"
           /\ Fresh(i).Assigned_Team # Prior(i, "Assigned_Team")
    /\ \E i \in Preserved : Fresh(i).Assigned_Team # Prior(i, "Assigned_Team")

(***************************************************************************)
(* C13: when the first matching rule belongs to a team that is none of     *)
(* system admin, out of scope or Application, the result is 'Unclassified' *)
(* with Needs_Review True and Method 'Rule'; so every result with Method   *)
(* 'Rule' and Needs_Review False has as Assigned_Team the display name of  *)
(* a distinguished category or an owner of the hostname map.               *)
(***************************************************************************)
C13_OtherTeamsContained ==
    \A title \in Titles, hostname \in RowHosts :
        LET result == Classified(title, hostname)
        IN  /\ (Truthy(Matched(title).team) /\ Tier(Matched(title).team) = 3) =>
                    /\ result.Assigned_Team = "Unclassified"
                    /\ result.Needs_Review = TRUE
                    /\ result.Method = "Rule"
            /\ (result.Method = "Rule" /\ result.Needs_Review = FALSE) =>
                    result.Assigned_Team
                        \in {"System Admin", "Application", "Out of Linux Scope",
                             "Out of Platform Scope"}
                            \cup {CanonicalCasing(classifier.hostname_map[h]) :
                                     h \in DOMAIN classifier.hostname_map}

\* predict matched a row to a rule of 'Web Team' and left it Unclassified, to
\* be reviewed.
C13_Witness ==
    /\ last.op = "predict"
    /\ \E i \in 1..Len(last.rows) :
           /\ Matched(last.rows[i].Title).team = "Web Team"
           /\ last.rows[i].Method = "Rule"
           /\ last.rows[i].Assigned_Team = "Unclassified"
           /\ last.rows[i].Needs_Review = TRUE

(***************************************************************************)
(* C14: no value in the rows reclassify_data returns is a float NaN: every *)
(* NaN, in pass-through columns and in the values restored for preserved   *)
(* manual override rows too, has been replaced by null.                    *)
(***************************************************************************)
C14_NoNaNReturned ==
    last.op = "reclassify_data" =>
        \A i \in 1..Len(last.rows) :
            \A col \in DOMAIN last.rows[i] \ BooleanColumns : last.rows[i][col] # NaN

(***************************************************************************)
(* C15: every row predict returns has the eight columns hostname, Title,   *)
(* Assigned_Team, Reason, Needs_Review, Method, Fuzzy_Score, Matched_Rule; *)
(* a Title or hostname column the input did not have, under any accepted   *)
(* name, is in the output with the empty string as its value.              *)
(***************************************************************************)
C15_EightColumnsAlways ==
    last.op = "predict" =>
        \A i \in 1..Len(last.rows) :
            /\ {"hostname", "Title"} \cup ClassificationColumns \subseteq DOMAIN last.rows[i]
            /\ \A col \in {"hostname", "Title"} :
                   (\A k \in DOMAIN last.df[i] : RenameColumn(k) # col) =>
                       last.rows[i][col] = ""

(***************************************************************************)
(* The loaded rules with every malformed regex rule replaced by a rule     *)
(* that has no pattern, which matches no title.                            *)
(***************************************************************************)
WithoutMalformed(rule_list) ==
    [n \in 1..Len(rule_list) |->
        IF rule_list[n].regex \in MalformedPatterns
        THEN [field |-> "Title", contains |-> "", regex |-> ""]
        ELSE rule_list[n]] @@ <<>>

RulesWithoutMalformed ==
    [i \in 1..Len(classifier.rules) |->
        [k |-> classifier.rules[i].k, v |-> WithoutMalformed(classifier.rules[i].v)]] @@ <<>>

(***************************************************************************)
(* C16: a rule whose regex is malformed behaves as a rule that never       *)
(* matches: every title is classified as it is with that rule replaced by  *)
(* a rule that matches nothing (so the other rules of its team and of the  *)
(* teams after it are still evaluated), and predict classifies every row   *)
(* of the batch.                                                           *)
(***************************************************************************)
C16_MalformedRegexNeverMatches ==
    /\ \A title \in Titles, hostname \in RowHosts :
           Classified(title, hostname)
               = _classify_single_row(
                     LoadedEngine(classifier.hostname_map, RulesWithoutMalformed),
                     StrStrip(title), StrStrip(hostname))
    /\ last.op = "predict" =>
           /\ Len(last.rows) = Len(last.df)
           /\ \A i \in 1..Len(last.rows) :
                  \A col \in ClassificationColumns :
                      last.rows[i][col] = Classified(last.df[i].Title, last.df[i].hostname)[col]

\* predict classified a row by a rule that comes after a malformed regex rule
\* in the rules of its team, and another by a rule of a team searched after a
\* team that has a malformed regex rule.
C16_Witness ==
    /\ last.op = "predict"
    /\ \E i \in 1..Len(last.rows), t \in 1..Len(classifier.rules) :
           /\ last.rows[i].Method = "Rule"
           /\ classifier.rules[t].k = Matched(last.rows[i].Title).team
           /\ Len(classifier.rules[t].v) >= 2
           /\ classifier.rules[t].v[1].regex \in MalformedPatterns
    /\ \E i \in 1..Len(last.rows), t \in 1..Len(classifier.rules) :
           /\ last.rows[i].Method = "Rule"
           /\ Tier(classifier.rules[t].k) < Tier(Matched(last.rows[i].Title).team)
           /\ \E n \in 1..Len(classifier.rules[t].v) :
                  classifier.rules[t].v[n].regex \in MalformedPatterns

(***************************************************************************)
(* C17: when neither a rule nor a fuzzy candidate matches, and so for      *)
(* every row when the rule store is empty, the result is exactly           *)
(* Assigned_Team 'Unclassified', Reason 'No matching rule', Needs_Review   *)
(* True, Method 'None', Fuzzy_Score null, Matched_Rule null.               *)
(***************************************************************************)
C17_DefaultWhenNothingMatches ==
    /\ \A title \in Titles, hostname \in RowHosts :
           (~Truthy(Matched(title).team) /\ Reaching(title) = {}) =>
               Classified(title, hostname)
                   = [Assigned_Team |-> "Unclassified", Reason |-> "No matching rule",
                      Needs_Review |-> TRUE, Method |-> "None", Fuzzy_Score |-> None,
                      Matched_Rule |-> None]
    /\ (last.op = "predict" /\ kb_rules = <<>>) =>
           \A i \in 1..Len(last.rows) :
               /\ last.rows[i].Assigned_Team = "Unclassified"
               /\ last.rows[i].Reason = "No matching rule"
               /\ last.rows[i].Needs_Review = TRUE
               /\ last.rows[i].Method = "None"
               /\ last.rows[i].Fuzzy_Score = None
               /\ last.rows[i].Matched_Rule = None

\* predict ran over an empty rule store, with an owner known for the hostname
\* of a row, and left every row Unclassified.
C17_Witness ==
    /\ last.op = "predict"
    /\ kb_rules = <<>>
    /\ \E i \in 1..Len(last.rows) : KnownOwner(last.rows[i].hostname)
    /\ \A i \in 1..Len(last.rows) :
           last.rows[i].Method = "None" /\ last.rows[i].Assigned_Team = "Unclassified"

(***************************************************************************)
(* C18  The engine classifies against the snapshot it loaded.  A call that *)
(* changes the rule store alone leaves the engine's hostname_map, rules    *)
(* and fuzzy index as they were, and with them the classification of every *)
(* title and hostname; a call of reload_rules leaves the engine equal to   *)
(* the engine built from the store as it is then.                          *)
(***************************************************************************)
StoreCalls ==
    {"add_title_rule", "delete_title_rule", "add_hostname_rule", "delete_hostname_rule"}

C18_SnapshotUntilReload ==
    [][/\ last'.op \in StoreCalls =>
            /\ classifier'.hostname_map = classifier.hostname_map
            /\ classifier'.rules = classifier.rules
            /\ classifier'.fuzzy_candidates = classifier.fuzzy_candidates
            /\ classifier'.normalized_patterns = classifier.normalized_patterns
            /\ \A title \in Titles, hostname \in RowHosts :
                   Classified(title, hostname)' = Classified(title, hostname)
       /\ last'.op = "reload_rules" =>
            /\ classifier'.hostname_map = load_hostname_map(kb_hostnames')
            /\ classifier'.rules = load_title_rules(kb_rules')
            /\ classifier' = _load_all_rules(kb_rules', kb_hostnames')]_vars

\* A table was classified by an engine older than the store: a row of it got
\* another team than the store's rules give it now.
C18_Witness ==
    /\ last.op = "predict"
    /\ classifier.rules # load_title_rules(kb_rules)
    /\ \E i \in DOMAIN last.rows :
           last.rows[i].Assigned_Team #
               _classify_single_row(_load_all_rules(kb_rules, kb_hostnames),
                                    StrStrip(last.df[i].Title),
                                    StrStrip(last.df[i].hostname)).Assigned_Team

(***************************************************************************)
(* C19  Reloads are serialized against classification on the engine the    *)
(* web routes share: while a predict of one request is in flight no other  *)
(* request is inside a reload_rules() that has rebuilt part of the engine, *)
(* and no table returned holds a row classified during such a rebuild.     *)
(***************************************************************************)
C19_ReloadSerialized ==
    /\ ~(requests.classify.pc = "predict" /\ Rebuilding(requests.rule))
    /\ last.op = "predict" /\ "rebuilding" \in DOMAIN last => ~last.rebuilding

(***************************************************************************)
(* C20  predict has no state across rows: it returns as many rows as it    *)
(* was given, in the order given, and each of the six classification       *)
(* fields of row i is the field of the single-row classification of the    *)
(* Title and hostname of row i by the engine, whatever the other rows of   *)
(* the table are.                                                          *)
(***************************************************************************)
C20_RowsClassifiedAlone ==
    last.op = "predict" =>
        /\ Len(last.rows) = Len(last.df)
        /\ \A i \in 1..Len(last.df) :
               /\ last.rows[i].Title = last.df[i].Title
               /\ last.rows[i].hostname = last.df[i].hostname
               /\ \A col \in ClassificationColumns :
                      Classified(last.df[i].Title, last.df[i].hostname)[col]
                          = last.rows[i][col]

(***************************************************************************)
(* C21  get_known_teams always returns the canonical display names of the  *)
(* four distinguished categories, 'System Admin', 'Application', 'Out of   *)
(* Linux Scope' and 'Out of Platform Scope', whatever the rule store and   *)
(* the hostname map hold, and when they are empty.                         *)
(***************************************************************************)
C21_FourCategoriesKnown ==
    last.op = "get_known_teams" =>
        {"System Admin", "Application", "Out of Linux Scope", "Out of Platform Scope"}
            \subseteq SeqToSet(last.teams)

(***************************************************************************)
(* C21, amended: the four names get_known_teams always returns are 'System *)
(* Admin', 'Application', 'Out of Linux Scope' and 'Unclassified'; the     *)
(* list is sorted and holds no name twice.                                 *)
(***************************************************************************)
C21_MandatoryTeamsKnown ==
    last.op = "get_known_teams" =>
        /\ {"System Admin", "Application", "Out of Linux Scope", "Unclassified"}
               \subseteq SeqToSet(last.teams)
        /\ \A i, j \in 1..Len(last.teams) : i < j => StrLess(last.teams[i], last.teams[j])

\* get_known_teams was called with the store and the engine empty.
C21_Witness ==
    /\ last.op = "get_known_teams"
    /\ kb_rules = <<>> /\ kb_hostnames = NoHostnames
    /\ classifier.rules = <<>> /\ classifier.hostname_map = NoHostnames
    /\ Len(last.teams) = 4

RegisteredTeams(p) ==
    {classifier.rules[i].k : i \in {j \in 1..Len(classifier.rules) :
        \E n \in 1..Len(classifier.rules[j].v) :
            /\ classifier.rules[j].v[n].contains # ""
            /\ StrStrip(classifier.rules[j].v[n].contains) = p}}

RegisteredPatterns == {p \in StrippedOf(PatternStrings) : RegisteredTeams(p) # {}}

(***************************************************************************)
(* C23  After every index build, a pattern registered, once trimmed, as a  *)
(* contains rule under several teams is mapped by fuzzy_candidates to a    *)
(* team of the highest-priority category among those teams: system admin,  *)
(* then out of scope, then the other teams, then Application.              *)
(***************************************************************************)
C23_IndexKeepsHighestCategory ==
    \A p \in {q \in RegisteredPatterns : Cardinality(RegisteredTeams(q)) >= 2} :
        /\ DictHas(classifier.fuzzy_candidates, p)
        /\ DictGet(classifier.fuzzy_candidates, p) \in RegisteredTeams(p)
        /\ \A team \in RegisteredTeams(p) :
               Tier(DictGet(classifier.fuzzy_candidates, p)) <= Tier(team)

(***************************************************************************)
(* C24  The index is built afresh by every reload: the keys of             *)
(* fuzzy_candidates are exactly the trimmed contains patterns of the       *)
(* current title rules, regex rules adding none and no pattern of a        *)
(* deleted or re-assigned rule staying; normalized_patterns has the same   *)
(* keys, each with its normalized form; and a second reload without a      *)
(* change of the store leaves the engine as it is.                         *)
(***************************************************************************)
C24_IndexIsExactlyTheRules ==
    /\ classifier.rules = load_title_rules(kb_rules)
    /\ SeqToSet(DictKeys(classifier.fuzzy_candidates)) = RegisteredPatterns
    /\ SeqToSet(DictKeys(classifier.normalized_patterns)) = RegisteredPatterns
    /\ \A p \in RegisteredPatterns :
           DictHas(classifier.normalized_patterns, p)
               => DictGet(classifier.normalized_patterns, p) = _normalize_str(p)
    /\ classifier = reload_rules(kb_rules, kb_hostnames)

(***************************************************************************)
(* C25  Every part of the engine gives a team name the same category:      *)
(* for every team of the rules, in any letter case, with blanks around or  *)
(* a system-admin alias, the step of the index builder that loads it, the  *)
(* tier in which the rule matcher searches it, the bucket of the fuzzy     *)
(* matcher and the branches of the resolver agree on system-admin,         *)
(* out-of-scope, application or other.                                     *)
(***************************************************************************)
C25_CategoriesAgree ==
    \A i \in 1..Len(classifier.rules) :
        /\ SearchCategory(classifier.rules[i].k) = IndexCategory(classifier.rules[i].k)
        /\ FuzzyCategory(classifier.rules[i].k) = IndexCategory(classifier.rules[i].k)
        /\ RuleBranch(StrLower(StrStrip(classifier.rules[i].k)))
               = IndexCategory(classifier.rules[i].k)
        /\ FuzzyBranchIsApp(classifier.rules[i].k)
               <=> IndexCategory(classifier.rules[i].k) = "app"

(***************************************************************************)
(* C26  After a route that changes the knowledge base has returned, with   *)
(* success or with an error, the hostname map and the title rules of the   *)
(* shared engine are those of the rule store: the store is never left      *)
(* changed without a reload.                                               *)
(***************************************************************************)
C26_EngineFollowsStore ==
    /\ classifier.hostname_map = load_hostname_map(kb_hostnames)
    /\ classifier.rules = load_title_rules(kb_rules)

(***************************************************************************)
(* C27  Reclassification is idempotent while the engine is not reloaded:   *)
(* the rows reclassify_data returned, given to it again with the same      *)
(* preserve_manual, come back identical, with method_changes 0 and         *)
(* team_changes 0.                                                         *)
(***************************************************************************)
C27_ReclassifyIdempotent ==
    last.op = "reclassify_again" =>
        /\ last.rows = last.first
        /\ last.method_changes = 0
        /\ last.team_changes = 0

\* A second pass over rows of which one is a kept manual override and
\* another was classified by a rule or a fuzzy match.
C27_Witness ==
    /\ last.op = "reclassify_again"
    /\ last.preserve_manual
    /\ \E i \in 1..Len(last.rows) : last.rows[i].Method = "Manual Override"
    /\ \E i \in 1..Len(last.rows) : last.rows[i].Method \in {"Rule", "Fuzzy"}

(***************************************************************************)
(* C28  Only one cleanup scheduler runs: whatever the interleaving of      *)
(* start(), stop() and restart(), at most one _scheduler_loop thread is    *)
(* alive.                                                                  *)
(***************************************************************************)
C28_OneLoopAlive == Cardinality({t \in DOMAIN loops : Alive(t)}) <= 1

(***************************************************************************)
(* C29  The login rate limiter bounds brute force: when every attempt      *)
(* passes is_rate_limited() before it is made and records its outcome      *)
(* with record_login_attempt(), at most MAX_LOGIN_ATTEMPTS failed attempts *)
(* of a client are let through within WINDOW_SECONDS, whatever the         *)
(* interleaving of the requests.                                           *)
(***************************************************************************)
C29_AtMostFiveFailures ==
    \A k \in DOMAIN _login_attempts :
        FailedCount(RecentEntries(_login_attempts[k], clock - WINDOW_SECONDS))
            <= MAX_LOGIN_ATTEMPTS

(***************************************************************************)
(* C30  The handler behind require_permission(p) runs only if the user     *)
(* database holds no user, or the current user is authenticated and the    *)
(* permissions of their role contain p: while users exist a request that   *)
(* is not authenticated never reaches the handler, a failing query of the  *)
(* user database included.                                                 *)
(***************************************************************************)
C30_HandlerNeedsPermission ==
    response.outcome = "handler" =>
        \/ ~response.existed
        \/ /\ response.user.is_authenticated
           /\ response.permission \in ROLE_PERMISSIONS(response.user.role)

====
